---- MODULE Spec2Model ----
(***************************************************************************)
(* juris-curador: the ABNT citation formatter                               *)
(* (src/src/citation_formatter.py), the simulated LLM snippet search        *)
(* (src/src/llm_integration.py), the PDF highlighter                        *)
(* (src/src/pdf_processing.py), the Zotero export                          *)
(* (src/src/zotero_integration.py), the PDF downloader                      *)
(* (src/src/source_downloader.py) and the configuration of                  *)
(* src/src/utils.py.                                                        *)
(* Strings are TLA+ strings (sequences of characters); an Optional[str] is  *)
(* a sequence of length 0 (None) or 1; a dict is a function whose domain is *)
(* the set of keys that are present. A call that raises leaves `out` as it  *)
(* was and sets `raised`.                                                   *)
(***************************************************************************)
EXTENDS Integers, Sequences, FiniteSets, TLC

VARIABLES items, call, out, raised, disk, hl, dl, cfg

vars == <<items, call, out, raised, disk, hl, dl, cfg>>

(***************************************************************************)
(* Bounds of the model                                                      *)
(***************************************************************************)
MaxAuthors == 3
MaxItems == 2

(***************************************************************************)
(* Python str primitives                                                    *)
(***************************************************************************)
None == <<>>
Some(s) == <<s>>

Ch(s, i) == SubSeq(s, i, i)

Min(S) == CHOOSE x \in S : \A y \in S : x <= y

\* Characters of the model's alphabet in ascending code point order. The
\* alphabet is ASCII: the accented letters of the source's literals and
\* example data are written as their base letters.
CodePoints == "\t\n !()*+,-./0123456789:;<>?ABCDEFGHIJKLMNOPQRSTUVWXYZ[]_abcdefghijklmnopqrstuvwxyz"

LowerChars == "abcdefghijklmnopqrstuvwxyz"
UpperChars == "ABCDEFGHIJKLMNOPQRSTUVWXYZ"

CharSet == {Ch(CodePoints, i) : i \in 1..Len(CodePoints)}

ord == [c \in CharSet |-> CHOOSE i \in 1..Len(CodePoints) : Ch(CodePoints, i) = c]

UpperTable == [c \in CharSet |->
                 IF \E i \in 1..Len(LowerChars) : Ch(LowerChars, i) = c
                 THEN Ch(UpperChars, CHOOSE i \in 1..Len(LowerChars) : Ch(LowerChars, i) = c)
                 ELSE c]

\* the concatenation f[lo] \o ... \o f[hi] of a sequence of strings
RECURSIVE concat_range(_, _, _)
concat_range(f, lo, hi) ==
  IF lo > hi THEN ""
  ELSE IF lo = hi THEN f[lo]
       ELSE LET mid == (lo + hi) \div 2
            IN  concat_range(f, lo, mid) \o concat_range(f, mid + 1, hi)

\* str.upper()
upper(s) == concat_range([i \in 1..Len(s) |-> UpperTable[Ch(s, i)]], 1, Len(s))

isspace(c) == c \in {" ", "\t", "\n"}

Digits == {"0", "1", "2", "3", "4", "5", "6", "7", "8", "9"}

\* str.isdigit(): non-empty and every character a digit
isdigit(s) == s # "" /\ \A i \in 1..Len(s) : Ch(s, i) \in Digits

startswith(s, p) == Len(s) >= Len(p) /\ SubSeq(s, 1, Len(p)) = p

endswith(s, p) == Len(s) >= Len(p) /\ SubSeq(s, Len(s) - Len(p) + 1, Len(s)) = p

\* the `in` operator on strings
contains(s, p) == \E i \in 1..(Len(s) - Len(p) + 1) : SubSeq(s, i, i + Len(p) - 1) = p

\* the number of occurrences of old that start at i - 1, i - 2, ... without a gap
RECURSIVE run_before(_, _, _)
run_before(s, old, i) ==
  IF i >= 2 /\ SubSeq(s, i - 1, i - 2 + Len(old)) = old
  THEN 1 + run_before(s, old, i - 1)
  ELSE 0

\* str.replace(old, new) for an old of one or two characters (every call of
\* the formatter): the occurrences replaced are the non-overlapping ones a
\* scan from the left finds, so in a run of overlapping occurrences every
\* second one, starting with the first; the result is not scanned again
replace(s, old, new) ==
  LET m == Len(old)
      occurs(i) == i >= 1 /\ i + m - 1 <= Len(s) /\ SubSeq(s, i, i + m - 1) = old
      replaced(i) == occurs(i) /\ (m = 1 \/ run_before(s, old, i) % 2 = 0)
      piece == [i \in 1..Len(s) |->
                  IF replaced(i) THEN new
                  ELSE IF m = 2 /\ replaced(i - 1) THEN ""
                       ELSE Ch(s, i)]
  IN  IF ~contains(s, old) THEN s ELSE concat_range(piece, 1, Len(s))

lstrip(s) ==
  IF \A i \in 1..Len(s) : isspace(Ch(s, i)) THEN ""
  ELSE SubSeq(s, Min({i \in 1..Len(s) : ~isspace(Ch(s, i))}), Len(s))

rstrip(s) ==
  IF \A i \in 1..Len(s) : isspace(Ch(s, i)) THEN ""
  ELSE SubSeq(s, 1, CHOOSE i \in 1..Len(s) :
                      ~isspace(Ch(s, i)) /\ \A j \in (i + 1)..Len(s) : isspace(Ch(s, j)))

strip(s) == rstrip(lstrip(s))

\* str.split(sep) with a one-character separator: empty tokens are kept
RECURSIVE split_sep(_, _)
split_sep(s, sep) ==
  LET at == {i \in 1..Len(s) : Ch(s, i) = sep}
  IN  IF at = {} THEN <<s>>
      ELSE <<SubSeq(s, 1, Min(at) - 1)>> \o split_sep(SubSeq(s, Min(at) + 1, Len(s)), sep)

\* str.split(): runs of whitespace separate, no empty tokens
RECURSIVE split_ws(_)
split_ws(s) ==
  LET t == lstrip(s)
      at == {i \in 1..Len(t) : isspace(Ch(t, i))}
  IN  IF t = "" THEN <<>>
      ELSE IF at = {} THEN <<t>>
           ELSE <<SubSeq(t, 1, Min(at) - 1)>> \o split_ws(SubSeq(t, Min(at) + 1, Len(t)))

\* sep.join(list)
RECURSIVE join(_, _)
join(sep, l) ==
  IF Len(l) = 0 THEN ""
  ELSE IF Len(l) = 1 THEN l[1]
       ELSE l[1] \o sep \o join(sep, Tail(l))

\* l[:n]
FirstN(l, n) == SubSeq(l, 1, IF Len(l) < n THEN Len(l) ELSE n)

\* str < str: the first differing character decides, by code point; a proper
\* prefix is smaller
str_lt(a, b) ==
  LET n == IF Len(a) < Len(b) THEN Len(a) ELSE Len(b)
      diff == {i \in 1..n : Ch(a, i) # Ch(b, i)}
  IN  IF diff = {} THEN Len(a) < Len(b)
      ELSE ord[Ch(a, Min(diff))] < ord[Ch(b, Min(diff))]

\* int(s) succeeds: optional surrounding whitespace, optional sign, digits
\* with single underscores between them
int_ok(s) ==
  LET t == strip(s)
      u == IF t # "" /\ Head(t) \in {"+", "-"} THEN Tail(t) ELSE t
  IN  /\ u # ""
      /\ \A i \in 1..Len(u) : Ch(u, i) \in Digits \cup {"_"}
      /\ Head(u) # "_"
      /\ Ch(u, Len(u)) # "_"
      /\ ~contains(u, "__")

(***************************************************************************)
(* dict access                                                              *)
(***************************************************************************)
has(d, k) == k \in DOMAIN d

\* the value None of a key that is present (a JSON null): a value different
\* from every string of the inputs
PyNone == "<None>"

\* a value as an f-string renders it
format_value(v) == IF v = PyNone THEN "None" ELSE v

\* d.get(k, default): the default only when the key is absent
get(d, k, default) == IF has(d, k) THEN d[k] ELSE default

\* truthiness of d.get(k): the key is present, its value neither None nor ""
truthy(d, k) == has(d, k) /\ d[k] # "" /\ d[k] # PyNone

\* item.get("authors", [])
get_authors(item) == IF has(item, "authors") THEN item["authors"] ELSE <<>>

(***************************************************************************)
(* ABNTFomatter._format_authors_abnt                                        *)
(***************************************************************************)
\* resolve_author with the first token of the name as the surname
resolve_author_first_token(author) ==
  LET last_name == get(author, "lastName", "")
      first_name == get(author, "firstName", "")
      full_name == get(author, "name", "")
      parts == split_sep(full_name, " ")
  IN  IF last_name = "" /\ full_name # ""
      THEN IF Len(parts) > 1
           THEN [last_name |-> parts[1],
                 first_name |-> join(" ", SubSeq(parts, 2, Len(parts)))]
           ELSE [last_name |-> parts[1], first_name |-> ""]
      ELSE [last_name |-> last_name, first_name |-> first_name]

\* lines 27-38: the surname and given name one author entry resolves to
resolve_author(author) ==
  LET last_name == get(author, "lastName", "")
      first_name == get(author, "firstName", "")
      full_name == get(author, "name", "")
      parts == split_sep(full_name, " ")
  IN  IF last_name = "" /\ full_name # ""
      THEN IF Len(parts) > 1
           THEN [last_name |-> parts[Len(parts)],
                 first_name |-> join(" ", SubSeq(parts, 1, Len(parts) - 1))]
           ELSE [last_name |-> parts[1], first_name |-> ""]
      ELSE [last_name |-> last_name, first_name |-> first_name]

\* format_one_author with an initial left in the case it is written in
format_one_author_initial_as_written(author, for_citation) ==
  LET r == resolve_author(author)
      last_name_upper == upper(r.last_name)
  IN  IF for_citation THEN last_name_upper
      ELSE IF r.first_name # ""
           THEN IF Len(r.first_name) = 1 \/ (Len(r.first_name) = 2 /\ endswith(r.first_name, "."))
                THEN last_name_upper \o ", " \o replace(r.first_name, ".", "") \o "."
                ELSE last_name_upper \o ", " \o r.first_name \o "."
           ELSE last_name_upper \o "."

\* lines 43-55: the rendering of one author with a surname
format_one_author(author, for_citation) ==
  LET r == resolve_author(author)
      last_name_upper == upper(r.last_name)
  IN  IF for_citation THEN last_name_upper
      ELSE IF r.first_name # ""
           THEN IF Len(r.first_name) = 1 \/ (Len(r.first_name) = 2 /\ endswith(r.first_name, "."))
                THEN last_name_upper \o ", " \o replace(upper(r.first_name), ".", "") \o "."
                ELSE last_name_upper \o ", " \o r.first_name \o "."
           ELSE last_name_upper \o "."

\* lines 25-55: the loop; entries without a surname are skipped
RECURSIVE formatted_authors(_, _)
formatted_authors(authors, for_citation) ==
  IF Len(authors) = 0 THEN <<>>
  ELSE (IF resolve_author(Head(authors)).last_name = "" THEN <<>>
        ELSE <<format_one_author(Head(authors), for_citation)>>)
       \o formatted_authors(Tail(authors), for_citation)

\* citation_form with "et al." starting at four authors instead of three
citation_form_from_four(fa) ==
  IF Len(fa) = 1 THEN fa[1]
  ELSE IF Len(fa) <= 3 THEN join("; ", fa)
       ELSE fa[1] \o " et al."

\* lines 64-70: the 1 / 2 / 3+ forms of the in-text citation
citation_form(fa) ==
  IF Len(fa) = 1 THEN fa[1]
  ELSE IF Len(fa) = 2 THEN fa[1] \o "; " \o fa[2]
       ELSE fa[1] \o " et al."

\* _format_authors_abnt with the citation form chosen from the length of the
\* list it is given
_format_authors_abnt_form_from_input(authors, for_citation) ==
  LET fa == formatted_authors(authors, for_citation)
  IN  IF Len(authors) = 0 THEN ""
      ELSE IF Len(fa) = 0 THEN ""
           ELSE IF for_citation
                THEN (IF Len(authors) >= 3 THEN fa[1] \o " et al." ELSE join("; ", fa))
                ELSE join("; ", fa)

_format_authors_abnt(authors, for_citation) ==
  LET fa == formatted_authors(authors, for_citation)
  IN  IF Len(authors) = 0 THEN ""
      ELSE IF Len(fa) = 0 THEN ""
           ELSE IF for_citation THEN citation_form(fa)
                ELSE join("; ", fa)

(***************************************************************************)
(* ABNTFomatter._get_year_from_date                                         *)
(***************************************************************************)
\* _get_year_from_date without the isdigit() test
_get_year_from_date_any4(date_str) ==
  IF date_str = None \/ date_str[1] = "" THEN None
  ELSE IF Len(date_str[1]) >= 4 THEN Some(SubSeq(date_str[1], 1, 4)) ELSE None

_get_year_from_date(date_str) ==
  IF date_str = None \/ date_str[1] = "" THEN None
  ELSE IF Len(date_str[1]) >= 4 /\ isdigit(SubSeq(date_str[1], 1, 4))
       THEN Some(SubSeq(date_str[1], 1, 4))
       ELSE None

\* item.get(k): None when the key is absent or its value is None
get_opt(d, k) == IF has(d, k) /\ d[k] # PyNone THEN Some(d[k]) ELSE None

(***************************************************************************)
(* ABNTFomatter.format_in_text_citation                                     *)
(***************************************************************************)
\* lines 109-112: pseudo-author from the title of a webpage
title_pseudo_author(title) ==
  LET title_words == split_ws(upper(title))
  IN  join(" ", FirstN(title_words, 3)) \o (IF Len(title_words) > 3 THEN "..." ELSE "")

\* citation_author_str with the publisher tried before the webpage title
citation_author_str_publisher_first(item_metadata) ==
  LET authors == get_authors(item_metadata)
      author_str == _format_authors_abnt(authors, TRUE)
  IN  IF author_str # "" THEN author_str
      ELSE IF truthy(item_metadata, "publisher") /\ Len(authors) = 0
           THEN upper(item_metadata["publisher"])
           ELSE IF get(item_metadata, "itemType", "") = "webpage" /\ truthy(item_metadata, "title")
                THEN title_pseudo_author(item_metadata["title"])
                ELSE author_str

\* lines 102-116: the author string after the fallback chain
citation_author_str(item_metadata) ==
  LET authors == get_authors(item_metadata)
      author_str == _format_authors_abnt(authors, TRUE)
  IN  IF author_str # "" THEN author_str
      ELSE IF get(item_metadata, "itemType", "") = "webpage" /\ truthy(item_metadata, "title")
           THEN title_pseudo_author(item_metadata["title"])
           ELSE IF truthy(item_metadata, "publisher") /\ Len(authors) = 0
                THEN upper(item_metadata["publisher"])
                ELSE author_str

\* format_in_text_citation with `or` for `and` in the test of line 120
format_in_text_citation_or(item_metadata, page) ==
  LET year == _get_year_from_date(get_opt(item_metadata, "date"))
      author_str == citation_author_str(item_metadata)
      year_str == IF year # None THEN year[1] ELSE "s.d."
      citation_parts ==
        (IF author_str # "" THEN <<author_str>> ELSE <<>>)
        \o <<year_str>>
        \o (IF page # None /\ page[1] # "" THEN <<"p. " \o page[1]>> ELSE <<>>)
  IN  IF author_str = "" \/ year = None THEN "[s.n.]"
      ELSE "(" \o join(", ", citation_parts) \o ")"

format_in_text_citation(item_metadata, page) ==
  LET year == _get_year_from_date(get_opt(item_metadata, "date"))
      author_str == citation_author_str(item_metadata)
      year_str == IF year # None THEN year[1] ELSE "s.d."
      citation_parts ==
        (IF author_str # "" THEN <<author_str>> ELSE <<>>)
        \o <<year_str>>
        \o (IF page # None /\ page[1] # "" THEN <<"p. " \o page[1]>> ELSE <<>>)
  IN  IF author_str = "" /\ year = None THEN "[s.n.]"
      ELSE "(" \o join(", ", citation_parts) \o ")"

(***************************************************************************)
(* ABNTFomatter.format_bibliography_entry                                   *)
(***************************************************************************)
\* truthiness of item.get("authors")
authors_truthy(item) == has(item, "authors") /\ Len(item["authors"]) > 0

item_type_is(item, t) == has(item, "itemType") /\ item["itemType"] = t

\* entry_point with the publisher used whenever no author is rendered, also
\* when the authors list is not empty
entry_point_publisher_always(item) ==
  LET author_str == _format_authors_abnt(get_authors(item), FALSE)
  IN  IF author_str # ""
      THEN [part |-> author_str, entry_start_is_title |-> FALSE, source |-> "authors"]
      ELSE IF truthy(item, "publisher")
           THEN [part |-> upper(item["publisher"]) \o ".", entry_start_is_title |-> FALSE,
                 source |-> "publisher"]
           ELSE IF truthy(item, "title")
                THEN [part |-> upper(item["title"]) \o ".", entry_start_is_title |-> TRUE,
                      source |-> "title"]
                ELSE [part |-> "[S.A.]", entry_start_is_title |-> FALSE, source |-> "none"]

\* lines 143-169: the first part and the flag entry_start_is_title
entry_point(item) ==
  LET author_str == _format_authors_abnt(get_authors(item), FALSE)
  IN  IF author_str # ""
      THEN [part |-> author_str, entry_start_is_title |-> FALSE, source |-> "authors"]
      ELSE IF truthy(item, "publisher") /\ ~authors_truthy(item)
           THEN [part |-> upper(item["publisher"]) \o ".", entry_start_is_title |-> FALSE,
                 source |-> "publisher"]
           ELSE IF item_type_is(item, "webpage") /\ truthy(item, "title")
                THEN [part |-> upper(item["title"]) \o ".", entry_start_is_title |-> TRUE,
                      source |-> "title"]
                ELSE IF truthy(item, "title")
                     THEN [part |-> upper(item["title"]) \o ".", entry_start_is_title |-> TRUE,
                           source |-> "title"]
                     ELSE [part |-> "[S.A.]", entry_start_is_title |-> FALSE, source |-> "none"]

\* lines 174-177: the title, with the subtitle when there is one
full_title(item) ==
  IF truthy(item, "subtitle")
  THEN format_value(get(item, "title", "[S.T.]")) \o ": " \o item["subtitle"]
  ELSE get(item, "title", "[S.T.]")

\* lines 181 and 185: title + "." raises TypeError when the title is None
title_parts_raises(item) ==
  /\ ~entry_point(item).entry_start_is_title
  /\ get(item, "itemType", "document") # "book"
  /\ full_title(item) = PyNone

\* lines 173-185
title_parts(item) ==
  LET title == full_title(item)
      item_type == get(item, "itemType", "document")
  IN  IF entry_point(item).entry_start_is_title THEN <<>>
      ELSE IF item_type = "journalArticle" THEN <<title \o ".">>
           ELSE IF item_type = "book" THEN <<"**" \o format_value(title) \o "**.">>
                ELSE <<title \o ".">>

\* lines 188-206
journal_parts(item) ==
  LET pages == IF truthy(item, "pages") THEN item["pages"] ELSE ""
  IN  IF item_type_is(item, "journalArticle")
      THEN <<"**" \o format_value(get(item, "publicationTitle", "[S.J.]")) \o "**">>
           \o (IF truthy(item, "journalPlace") THEN <<item["journalPlace"] \o ",">> ELSE <<>>)
           \o (IF truthy(item, "volume") THEN <<"v. " \o item["volume"] \o ",">> ELSE <<>>)
           \o (IF truthy(item, "issue") THEN <<"n. " \o item["issue"] \o ",">> ELSE <<>>)
           \o (IF pages # ""
               THEN <<(IF ~startswith(pages, "p.") /\ ~startswith(pages, "f.")
                       THEN "p. " \o pages ELSE pages) \o ",">>
               ELSE <<>>)
      ELSE <<>>

\* lines 218-224
edition_parts(item) ==
  IF truthy(item, "edition") /\ item_type_is(item, "book")
  THEN IF int_ok(item["edition"]) THEN <<item["edition"] \o ". ed.">>
       ELSE <<item["edition"] \o ".">>
  ELSE <<>>

\* lines 230 and 235: place + ":" and publisher + "," raise TypeError when the
\* value is None
place_publisher_parts_raises(item) ==
  /\ item_type_is(item, "book") \/ item_type_is(item, "report")
  /\ ~entry_point(item).entry_start_is_title \/ authors_truthy(item)
  /\ get(item, "place", "[S.l.]") = PyNone \/ get(item, "publisher", "[s.n.]") = PyNone

\* lines 227-236
place_publisher_parts(item) ==
  IF (item_type_is(item, "book") \/ item_type_is(item, "report"))
     /\ (~entry_point(item).entry_start_is_title \/ authors_truthy(item))
  THEN <<get(item, "place", "[S.l.]") \o ":", get(item, "publisher", "[s.n.]") \o ",">>
  ELSE <<>>

\* line 239
bib_year(item) ==
  LET y == _get_year_from_date(get_opt(item, "date"))
  IN  IF y # None THEN y[1] ELSE "s.d."

\* year_step looking for the year in the last part alone
year_step_last_part_only(parts, year) ==
  LET n == Len(parts)
  IN  IF ~contains(parts[n], year)
      THEN Append(parts, year \o ".")
      ELSE IF endswith(parts[n], ",")
           THEN [parts EXCEPT ![n] = SubSeq(parts[n], 1, Len(parts[n]) - 1) \o "."]
           ELSE parts

\* lines 243-247: append the year, or close the last part
year_step(parts, year) ==
  LET n == Len(parts)
      last2 == SubSeq(parts, IF n >= 2 THEN n - 1 ELSE 1, n)
  IN  IF ~\E i \in 1..Len(last2) : contains(last2[i], year)
      THEN Append(parts, year \o ".")
      ELSE IF endswith(parts[n], ",")
           THEN [parts EXCEPT ![n] = SubSeq(parts[n], 1, Len(parts[n]) - 1) \o "."]
           ELSE parts

\* lines 251-257
series_parts(item) ==
  IF truthy(item, "series")
  THEN <<"(" \o item["series"]
         \o (IF truthy(item, "seriesNumber") THEN ", " \o item["seriesNumber"] ELSE "")
         \o ").">>
  ELSE <<>>

\* lines 261-269
url_parts(item) ==
  IF truthy(item, "url")
  THEN <<"Disponivel em: <" \o item["url"] \o ">.",
         IF truthy(item, "accessDate")
         THEN "Acesso em: " \o item["accessDate"] \o "."
         ELSE "Acesso em: [informar data de acesso].">>
  ELSE <<>>

\* lines 273-277
doi_parts(item) ==
  IF truthy(item, "doi") /\ ~(truthy(item, "url") /\ contains(item["url"], item["doi"]))
  THEN <<"DOI: " \o item["doi"] \o ".">>
  ELSE <<>>

\* lines 280-282
download_parts(item, include_download_link) ==
  IF include_download_link /\ truthy(item, "local_pdf_path")
  THEN <<"[Download Local: " \o item["local_pdf_path"] \o "]">>
  ELSE <<>>

\* lines 139-282: the list `parts` when it is joined
bib_parts(item, include_download_link) ==
  year_step(<<entry_point(item).part>> \o title_parts(item) \o journal_parts(item)
            \o edition_parts(item) \o place_publisher_parts(item), bib_year(item))
  \o series_parts(item) \o url_parts(item) \o doi_parts(item)
  \o download_parts(item, include_download_link)

\* the generator expression `p for p in parts if p`
nonempty_parts(parts) == SelectSeq(parts, LAMBDA p : p # "")

\* lines 285-287
normalize_punctuation(final_str) ==
  LET s1 == replace(replace(replace(final_str, " ,", ","), " .", "."), " :", ":")
      s2 == replace(replace(replace(replace(s1, ",.", "."), "..", "."), ":,", ":"), ";,", ";")
  IN  replace(s2, "  ", " ")

\* terminate_entry without the removal of the period behind "]" and ")"
terminate_entry_keep_period(final_str) ==
  IF \E e \in {".", "]", ")", "?", "!"} : endswith(final_str, e)
  THEN final_str ELSE final_str \o "."

\* lines 290-293
terminate_entry(final_str) ==
  LET s == IF \E e \in {".", "]", ")", "?", "!"} : endswith(final_str, e)
           THEN final_str ELSE final_str \o "."
  IN  IF endswith(s, "].") \/ endswith(s, ").") THEN SubSeq(s, 1, Len(s) - 1) ELSE s

\* the entry cannot be made: an exception leaves format_bibliography_entry
format_bibliography_entry_raises(item) ==
  title_parts_raises(item) \/ place_publisher_parts_raises(item)

format_bibliography_entry(item, include_download_link) ==
  strip(terminate_entry(normalize_punctuation(
          strip(join(" ", nonempty_parts(bib_parts(item, include_download_link)))))))

(***************************************************************************)
(* ABNTFomatter.generate_bibliography                                       *)
(***************************************************************************)
\* lines 310-320: the first component of the sort key
sort_entry_point(item_data) ==
  LET authors_list == get_authors(item_data)
      first_author == authors_list[1]
      last_name0 == upper(get(first_author, "lastName", ""))
      name_parts == split_ws(get(first_author, "name", ""))
      last_name == IF last_name0 = "" /\ truthy(first_author, "name")
                   THEN (IF Len(name_parts) > 0 THEN upper(name_parts[Len(name_parts)]) ELSE "")
                   ELSE last_name0
  IN  IF Len(authors_list) > 0
      THEN (IF last_name # "" THEN last_name ELSE "[S.A.]")
      ELSE IF truthy(item_data, "publisher") THEN upper(item_data["publisher"])
           ELSE IF truthy(item_data, "title") THEN upper(item_data["title"])
                ELSE "[S.A.]"

\* sort_year with the default "9999"
sort_year_default_9999(item_data) ==
  LET d == get(item_data, "date", "9999")
      y == _get_year_from_date(IF d = PyNone THEN None ELSE Some(d))
  IN  IF y # None THEN y[1] ELSE "9999"

\* line 307
sort_year(item_data) ==
  LET d == get(item_data, "date", "0000")
      y == _get_year_from_date(IF d = PyNone THEN None ELSE Some(d))
  IN  IF y # None THEN y[1] ELSE "0000"

\* sort_key without the year
sort_key_no_year(item_data) ==
  <<sort_entry_point(item_data), "0000", upper(get(item_data, "title", ""))>>

\* lines 305-322
sort_key(item_data) ==
  <<sort_entry_point(item_data), sort_year(item_data), upper(get(item_data, "title", ""))>>

\* line 322: item_data.get("title", "").upper() raises AttributeError when the
\* title is None
sort_key_raises(item_data) == get(item_data, "title", "") = PyNone

\* tuple < tuple: the first differing component decides
key_lt(a, b) ==
  \/ str_lt(a[1], b[1])
  \/ a[1] = b[1] /\ str_lt(a[2], b[2])
  \/ a[1] = b[1] /\ a[2] = b[2] /\ str_lt(a[3], b[3])

\* insert_sorted placing an element in front of the elements equal to it
RECURSIVE insert_sorted_before_equal(_, _)
insert_sorted_before_equal(l, x) ==
  IF Len(l) = 0 THEN <<x>>
  ELSE IF ~key_lt(sort_key(l[Len(l)]), sort_key(x))
       THEN Append(insert_sorted_before_equal(SubSeq(l, 1, Len(l) - 1), x), l[Len(l)])
       ELSE Append(l, x)

\* the place sorted() gives one more element: behind every element that is
\* not greater than it
RECURSIVE insert_sorted(_, _)
insert_sorted(l, x) ==
  IF Len(l) = 0 THEN <<x>>
  ELSE IF key_lt(sort_key(x), sort_key(l[Len(l)]))
       THEN Append(insert_sorted(SubSeq(l, 1, Len(l) - 1), x), l[Len(l)])
       ELSE Append(l, x)

\* line 329: sorted(items, key=sort_key), a new list, stable
RECURSIVE sorted_items(_)
sorted_items(l) ==
  IF Len(l) = 0 THEN <<>>
  ELSE insert_sorted(sorted_items(SubSeq(l, 1, Len(l) - 1)), l[Len(l)])

\* items.sort(key=sort_key) in place of sorted(items, key=sort_key)
items_after_sort_in_place(l) == sorted_items(l)

\* line 329: sorted() leaves the list it is given as it was
items_after_sorted(l) == l

\* lines 331-333
bib_entries(l, include_download_links) ==
  [i \in 1..Len(l) |-> format_bibliography_entry(l[i], include_download_links)]

\* lines 329-333: an exception of sort_key or of format_bibliography_entry
\* leaves generate_bibliography
generate_bibliography_raises(l) ==
  \E i \in 1..Len(l) : sort_key_raises(l[i]) \/ format_bibliography_entry_raises(l[i])

\* generate_bibliography with one newline between the entries
generate_bibliography_one_newline(l, include_download_links) ==
  IF Len(l) = 0 THEN ""
  ELSE join("\n", bib_entries(sorted_items(l), include_download_links))

generate_bibliography(l, include_download_links) ==
  IF Len(l) = 0 THEN ""
  ELSE join("\n\n", bib_entries(sorted_items(l), include_download_links))

(***************************************************************************)
(* LLMIntegration.find_relevant_snippet (src/src/llm_integration.py)        *)
(***************************************************************************)
LowerTable == [c \in CharSet |->
                 IF \E i \in 1..Len(UpperChars) : Ch(UpperChars, i) = c
                 THEN Ch(LowerChars, CHOOSE i \in 1..Len(UpperChars) : Ch(UpperChars, i) = c)
                 ELSE c]

\* str.lower()
lower(s) == concat_range([i \in 1..Len(s) |-> LowerTable[Ch(s, i)]], 1, Len(s))

\* str.find(sub): the 0-based index of the first occurrence, -1 without one
find(s, sub) ==
  IF contains(s, sub)
  THEN Min({i \in 1..(Len(s) - Len(sub) + 1) : SubSeq(s, i, i + Len(sub) - 1) = sub}) - 1
  ELSE -1

\* s[a:b] for 0 <= a <= b
slice(s, a, b) == SubSeq(s, a + 1, IF b < Len(s) THEN b ELSE Len(s))

\* line 60: the characters of the PDF content that go into the prompt
PromptChars == 2000

\* line 78: the characters of context behind the match
ContextChars == 150

\* line 82
no_match_text(citation_text) ==
  "Simulated LLM: No exact match for '" \o citation_text
  \o "' found in the provided PDF snippet."

\* lines 60-90; a citation_text of None raises inside the try block (line 75)
\* and the handler returns ""
find_relevant_snippet(citation_text, pdf_content) ==
  LET pdf_snippet_for_prompt == slice(pdf_content, 0, PromptChars)
      start_index == find(lower(pdf_snippet_for_prompt), lower(citation_text))
      end_index == start_index + Len(citation_text) + ContextChars
      llm_identified_text ==
        IF contains(lower(pdf_snippet_for_prompt), lower(citation_text))
        THEN slice(pdf_snippet_for_prompt, start_index, end_index)
        ELSE no_match_text(citation_text)
  IN  IF citation_text = PyNone THEN ""
      ELSE strip(llm_identified_text)

(***************************************************************************)
(* PDFProcessor (src/src/pdf_processing.py). A PDF document is a sequence   *)
(* of pages; a page is its text, as page.get_text() returns it, and the set *)
(* of its highlight annotations. The disk is a function from the paths of   *)
(* the files that exist to their documents.                                 *)
(***************************************************************************)
NoFiles == <<>>

\* lines 15-19 and 109: highlight_colors.get(citation_type, highlight_colors["primary"]),
\* a colour named by its key
highlight_color(citation_type) ==
  IF citation_type \in {"primary", "secondary", "llm_identified"} THEN citation_type
  ELSE "primary"

\* page.search_for(needle): the places of the page where the needle stands,
\* in any case of its letters; none for the empty needle
search_for(page, needle) ==
  IF needle = "" THEN {}
  ELSE {i \in 1..(Len(page.text) - Len(needle) + 1) :
          lower(SubSeq(page.text, i, i + Len(needle) - 1)) = lower(needle)}

\* lines 116-120: one highlight annotation per place found
add_highlight_annots(page, needle, color) ==
  [page EXCEPT !.annots = @ \cup {[at |-> i, text |-> needle, color |-> color]
                                    : i \in search_for(page, needle)}]

\* lines 33-50: the texts of the pages, one behind the other; "" when the
\* file cannot be opened
extract_text_from_pdf(files, pdf_path) ==
  IF pdf_path \notin DOMAIN files THEN ""
  ELSE concat_range([n \in 1..Len(files[pdf_path]) |-> files[pdf_path][n].text],
                    1, Len(files[pdf_path]))

\* the frame of a call of highlight_text_in_pdf: arguments, locals, the
\* position in the body, and the value returned
NoHighlight ==
  [pc |-> "idle", pdf_path |-> "", text_to_highlight |-> "", output_pdf_path |-> "",
   citation_type |-> "primary", use_llm_fallback |-> FALSE, doc |-> <<>>, page_num |-> 0,
   highlight_performed |-> FALSE, llm_called |-> FALSE, llm_snippet |-> "",
   branch |-> "none", ret |-> None]

\* after_search with the fallback taken whenever it is enabled
after_search_fallback_when_enabled(frame) ==
  IF frame.page_num <= Len(frame.doc) THEN frame
  ELSE [frame EXCEPT !.pc = IF frame.use_llm_fallback THEN "fallback" ELSE "save"]

\* line 124: where the body goes on when the loop over the pages is left
after_search(frame) ==
  IF frame.page_num <= Len(frame.doc) THEN frame
  ELSE [frame EXCEPT !.pc = IF ~frame.highlight_performed /\ frame.use_llm_fallback
                            THEN "fallback" ELSE "save"]

\* lines 135-147: the pages up to the first one that holds the snippet are
\* searched, that one is annotated
RECURSIVE annotate_first_page(_, _, _, _)
annotate_first_page(doc, n, needle, color) ==
  IF n > Len(doc) THEN doc
  ELSE IF search_for(doc[n], needle) # {}
       THEN [doc EXCEPT ![n] = add_highlight_annots(doc[n], needle, color)]
       ELSE annotate_first_page(doc, n + 1, needle, color)

\* lines 150-159: every page that holds the snippet is annotated
annotate_all_pages(doc, needle, color) ==
  [n \in 1..Len(doc) |-> add_highlight_annots(doc[n], needle, color)]

\* lines 124-161: the LLM fallback
llm_fallback(frame, files) ==
  LET pdf_full_text == extract_text_from_pdf(files, frame.pdf_path)
      llm_snippet == find_relevant_snippet(frame.text_to_highlight, pdf_full_text)
      llm_highlight_color == highlight_color("llm_identified")
      found == \E n \in 1..Len(frame.doc) : search_for(frame.doc[n], llm_snippet) # {}
  IN  IF pdf_full_text = ""
      THEN [frame EXCEPT !.branch = "no_text"]
      ELSE IF llm_snippet # "" /\ ~contains(pdf_full_text, llm_snippet)
           THEN [frame EXCEPT !.llm_called = TRUE, !.llm_snippet = llm_snippet,
                              !.branch = "not_substring",
                              !.doc = annotate_first_page(@, 1, llm_snippet, llm_highlight_color),
                              !.highlight_performed = found]
           ELSE IF llm_snippet # ""
                THEN [frame EXCEPT !.llm_called = TRUE, !.llm_snippet = llm_snippet,
                                   !.branch = "substring",
                                   !.doc = annotate_all_pages(@, llm_snippet, llm_highlight_color),
                                   !.highlight_performed = found]
                ELSE [frame EXCEPT !.llm_called = TRUE, !.llm_snippet = llm_snippet,
                                   !.branch = "no_usable_snippet"]

(***************************************************************************)
(* ZoteroIntegration (src/src/zotero_integration.py)                        *)
(***************************************************************************)
\* lines 20-33: the item types of the type map, each mapped to itself
type_map ==
  [t \in {"journalArticle", "book", "bookSection", "conferencePaper", "report", "thesis",
          "webpage", "manuscript", "patent", "statute", "case"} |-> t]

\* lines 15-34
_map_item_type_to_zotero(item_type_str) ==
  IF item_type_str = None \/ item_type_str[1] = "" THEN "document"
  ELSE IF lower(item_type_str[1]) \in DOMAIN type_map THEN type_map[lower(item_type_str[1])]
       ELSE "document"

\* lines 51-59: the creator of one author entry; no creator without a name field
creator_of(author_data) ==
  LET creatorType == "creatorType" :> lower(get(author_data, "creatorType", "author"))
  IN  IF has(author_data, "firstName") \/ has(author_data, "lastName")
      THEN <<creatorType @@ ("firstName" :> get(author_data, "firstName", ""))
                         @@ ("lastName" :> get(author_data, "lastName", ""))>>
      ELSE IF has(author_data, "name")
           THEN <<creatorType @@ ("name" :> author_data["name"])>>
           ELSE <<>>

\* lines 36-62
RECURSIVE _format_creators_for_zotero(_)
_format_creators_for_zotero(authors_list) ==
  IF Len(authors_list) = 0 THEN <<>>
  ELSE creator_of(Head(authors_list)) \o _format_creators_for_zotero(Tail(authors_list))

\* lines 83-143: the keys of the Zotero item that copy a key of the metadata,
\* as <<key of the Zotero item, key of the metadata, default>>
CopiedFields ==
  { <<"date", "date", "">>, <<"url", "url", "">>, <<"DOI", "doi", "">>,
    <<"publicationTitle", "publicationTitle", "">>,
    <<"journalAbbreviation", "journalAbbreviation", "">>, <<"volume", "volume", "">>,
    <<"issue", "issue", "">>, <<"pages", "pages", "">>, <<"publisher", "publisher", "">>,
    <<"place", "place", "">>, <<"edition", "edition", "">>, <<"ISBN", "ISBN", "">>,
    <<"abstractNote", "abstractNote", "">>, <<"language", "language", "pt-BR">>,
    <<"shortTitle", "shortTitle", "">>, <<"archive", "archive", "">>,
    <<"archiveLocation", "archiveLocation", "">>, <<"libraryCatalog", "libraryCatalog", "">>,
    <<"callNumber", "callNumber", "">>, <<"rights", "rights", "">>, <<"extra", "extra", "">>,
    <<"series", "series", "">>, <<"seriesNumber", "seriesNumber", "">>,
    <<"numberOfVolumes", "numberOfVolumes", "">>, <<"conferenceName", "conferenceName", "">> }

\* the working directory os.path.abspath resolves a relative path against
Cwd == "/work"

\* os.path.abspath
abspath(path) == IF startswith(path, "/") THEN path ELSE Cwd \o "/" \o path

\* lines 147-155: tags that are a list of strings
zotero_tags(item_metadata) ==
  LET tags == IF has(item_metadata, "tags") THEN item_metadata["tags"] ELSE <<>>
  IN  [n \in 1..Len(tags) |-> [tag |-> tags[n]]]

\* lines 158-185
zotero_attachments(item_metadata, pdf_path, pdf_exists) ==
  IF pdf_path # None /\ pdf_path[1] # "" /\ pdf_exists
  THEN <<[title |-> get(item_metadata, "title", "Attached PDF") \o " (PDF)",
          localPath |-> abspath(pdf_path[1]), path |-> abspath(pdf_path[1]),
          mimeType |-> "application/pdf", itemType |-> "attachment",
          linkMode |-> "linked_file"]>>
  ELSE <<>>

\* lines 64-188: the dict returned; of the keys whose value is empty only the
\* title is kept
create_zotero_json_item(item_metadata, pdf_path, pdf_exists) ==
  LET creators == _format_creators_for_zotero(get_authors(item_metadata))
      tags == zotero_tags(item_metadata)
      attachments == zotero_attachments(item_metadata, pdf_path, pdf_exists)
      copied == {f \in CopiedFields : get(item_metadata, f[2], f[3]) # ""}
      value(k) == LET f == CHOOSE f \in copied : f[1] = k
                  IN  get(item_metadata, f[2], f[3])
  IN  ("itemType" :> _map_item_type_to_zotero(get_opt(item_metadata, "itemType")))
      @@ ("title" :> get(item_metadata, "title", "No Title"))
      @@ (IF Len(creators) > 0 THEN "creators" :> creators ELSE <<>>)
      @@ [k \in {f[1] : f \in copied} |-> value(k)]
      @@ (IF Len(tags) > 0 THEN "tags" :> tags ELSE <<>>)
      @@ (IF Len(attachments) > 0 THEN "attachments" :> attachments ELSE <<>>)

(***************************************************************************)
(* SourceDownloader (src/src/source_downloader.py). The files of the disk   *)
(* are a function from their paths to their contents; a response of the     *)
(* server is a record of what requests.get, open and iter_content do.       *)
(***************************************************************************)
\* str.rfind(c) of one character: the 0-based index of its last occurrence,
\* -1 without one
rfind(s, c) ==
  LET I == {i \in 1..Len(s) : Ch(s, i) = c}
  IN  IF I = {} THEN -1 ELSE (CHOOSE i \in I : \A j \in I : j <= i) - 1

\* os.path.basename
basename(p) == slice(p, rfind(p, "/") + 1, Len(p))

\* os.path.splitext: the extension starts at the last dot of the last
\* component, unless nothing but dots stands before it in that component
splitext(p) ==
  LET sepIndex == rfind(p, "/")
      dotIndex == rfind(p, ".")
      leading == \A i \in (sepIndex + 1)..(dotIndex - 1) : Ch(p, i + 1) = "."
  IN  IF dotIndex > sepIndex /\ ~leading
      THEN <<slice(p, 0, dotIndex), slice(p, dotIndex, Len(p))>>
      ELSE <<p, "">>

\* os.path.join of a directory and a name
path_join(dir, name) ==
  IF startswith(name, "/") THEN name
  ELSE IF dir = "" \/ endswith(dir, "/") THEN dir \o name
       ELSE dir \o "/" \o name

\* urlparse(url).path of scheme://netloc/path?query#fragment
url_path(url) ==
  LET a == find(url, "://")
      rest == IF a >= 0 THEN slice(url, a + 3, Len(url)) ELSE url
      no_fragment == IF find(rest, "#") >= 0 THEN slice(rest, 0, find(rest, "#")) ELSE rest
      no_query == IF find(no_fragment, "?") >= 0
                  THEN slice(no_fragment, 0, find(no_fragment, "?")) ELSE no_fragment
      b == find(no_query, "/")
  IN  IF a < 0 THEN no_query
      ELSE IF b >= 0 THEN slice(no_query, b, Len(no_query)) ELSE ""

\* lines 25-45
_get_filename_from_url(url, content_type) ==
  LET filename == basename(url_path(url))
  IN  IF filename # "" /\ contains(filename, ".") THEN filename
      ELSE IF contains(content_type, "application/pdf") THEN "document.pdf"
           ELSE "downloaded_file"

\* lines 66-74: the name of the file, with the extension .pdf
download_filename(pdf_url, custom_filename, content_type) ==
  IF custom_filename # None /\ custom_filename[1] # ""
  THEN IF endswith(lower(custom_filename[1]), ".pdf") THEN custom_filename[1]
       ELSE custom_filename[1] \o ".pdf"
  ELSE LET filename == _get_filename_from_url(pdf_url, content_type)
       IN  IF endswith(lower(filename), ".pdf") THEN filename
           ELSE splitext(filename)[1] \o ".pdf"

\* str(count) in an f-string
str_of_int(n) ==
  IF n < 10 THEN Ch("0123456789", n + 1)
  ELSE Ch("0123456789", (n \div 10) + 1) \o Ch("0123456789", (n % 10) + 1)

\* lines 79-83: the first of file_path, base_1.ext, base_2.ext, ... that does
\* not exist
free_path(files, file_path) ==
  LET base_name == splitext(file_path)[1]
      ext == splitext(file_path)[2]
      numbered(count) == base_name \o "_" \o str_of_int(count) \o ext
      n == Cardinality(DOMAIN files) + 1
  IN  IF file_path \notin DOMAIN files THEN file_path
      ELSE numbered(Min({count \in 1..n : numbered(count) \notin DOMAIN files}))

\* lines 55-97: the value returned and the files afterwards. The response
\* says how far the download gets: "request_error" (requests.get or
\* raise_for_status raises), "open_error" (the file cannot be created),
\* "stream_error" (the file is created and the transfer breaks) or "ok".
download_direct_pdf(files, download_dir, pdf_url, custom_filename, response) ==
  LET content_type == lower(response.content_type)
      filename == download_filename(pdf_url, custom_filename, content_type)
      file_path == free_path(files, path_join(download_dir, filename))
  IN  IF response.status = "request_error" \/ response.status = "open_error"
      THEN [ret |-> None, files |-> files]
      ELSE IF response.status = "stream_error"
           THEN [ret |-> None, files |-> (file_path :> "") @@ files]
           ELSE [ret |-> Some(file_path), files |-> (file_path :> response.content) @@ files]

\* no SourceDownloader yet
NoDownloader ==
  [download_dir |-> "", called |-> FALSE, status |-> "none", ret |-> None,
   before |-> NoFiles, returned |-> {}]

(***************************************************************************)
(* Configuration management (src/src/utils.py). A YAML value is tagged: a   *)
(* mapping (is_dict) with its entries, or a scalar with its text. The      *)
(* nested dicts of                                                          *)
(* DEFAULT_CONFIG are objects: an entry of _config is either shared with    *)
(* DEFAULT_CONFIG (the same object, as dict.copy() leaves it) or holds a    *)
(* value of its own.                                                        *)
(***************************************************************************)
Mapping(d) == [is_dict |-> TRUE, v |-> d]
Scalar(s) == [is_dict |-> FALSE, v |-> [scalar |-> s]]

\* lines 17-42
DEFAULT_CONFIG ==
  [directories |->
     [download |-> "juris_downloads", annotated_pdfs |-> "juris_annotated",
      zotero_exports |-> "juris_zotero_exports", logs |-> "juris_logs"],
   pdf_highlight_colors |->
     [primary |-> "[1, 1, 0]", secondary |-> "[0, 1, 1]", llm_identified |-> "[0.8, 0.2, 0.8]"],
   output_formats |-> [bibliography_style |-> "ABNT", zotero_json_indent |-> "4"],
   llm |-> [api_key_env_var |-> "LLM_API_KEY", default_model |-> "gemini-pro"],
   logging |->
     [level |-> "INFO", format |-> "%(asctime)s - %(name)s - %(levelname)s - %(message)s",
      datefmt |-> "%Y-%m-%d %H:%M:%S"]]

\* the module is not imported
NoModule == [DEFAULT_CONFIG |-> <<>>, _config |-> <<>>, ret |-> None]

\* dict.update
dict_update(d, other) ==
  [k \in DOMAIN d \cup DOMAIN other |-> IF k \in DOMAIN other THEN other[k] ELSE d[k]]

\* the dict a reader of _config sees
config_value(m) ==
  [k \in DOMAIN m._config |->
     IF m._config[k].shared THEN Mapping(m.DEFAULT_CONFIG[k]) ELSE m._config[k].value]

\* lines 62-66: a mapping of the file is merged into the nested dict that
\* _config holds under the key, any other value replaces the entry
deep_update(m, loaded_config) ==
  LET is_nested(k) == k \in DOMAIN m._config
                      /\ (m._config[k].shared \/ m._config[k].value.is_dict)
      merged(k) == k \in DOMAIN loaded_config /\ loaded_config[k].is_dict /\ is_nested(k)
  IN  [m EXCEPT
         !.DEFAULT_CONFIG =
           [k \in DOMAIN m.DEFAULT_CONFIG |->
              IF merged(k) /\ m._config[k].shared
              THEN dict_update(m.DEFAULT_CONFIG[k], loaded_config[k].v)
              ELSE m.DEFAULT_CONFIG[k]],
         !._config =
           [k \in DOMAIN m._config \cup DOMAIN loaded_config |->
              IF k \notin DOMAIN loaded_config THEN m._config[k]
              ELSE IF merged(k)
                   THEN (IF m._config[k].shared THEN m._config[k]
                         ELSE [shared |-> FALSE,
                               value |-> Mapping(dict_update(m._config[k].value.v,
                                                             loaded_config[k].v))])
                   ELSE [shared |-> FALSE, value |-> loaded_config[k]]]]

\* lines 46-87. io_ok: os.makedirs and open(config_path, 'w') succeed.
\* The result: the module, the files, and the value returned or the
\* exception raised.
load_config(m, files, config_path, io_ok) ==
  LET \* line 59: DEFAULT_CONFIG.copy(), a new dict with the same nested objects
      copied == [m EXCEPT !._config = [k \in DOMAIN m.DEFAULT_CONFIG |->
                                         [shared |-> TRUE, value |-> Scalar("")]]]
      file == files[config_path]
      loaded == IF config_path \in DOMAIN files /\ file.kind = "mapping"
                THEN deep_update(copied, file.data)
                ELSE copied
      \* lines 76-78: yaml.dump(DEFAULT_CONFIG) into the missing file
      template == config_path :> [kind |-> "mapping",
                                  data |-> [k \in DOMAIN m.DEFAULT_CONFIG |->
                                              Mapping(m.DEFAULT_CONFIG[k])]]
      files1 == IF config_path \notin DOMAIN files /\ io_ok THEN template @@ files ELSE files
      cv == config_value(loaded)
      \* line 84: .items() of a value that is no mapping raises AttributeError
      directories_raises == "directories" \in DOMAIN cv /\ ~cv["directories"].is_dict
      \* lines 84-85: the directories ensure_directory_exists has to make
      missing == IF "directories" \notin DOMAIN cv \/ directories_raises THEN {}
                 ELSE {cv["directories"].v[k] : k \in DOMAIN cv["directories"].v}
                        \ (DOMAIN files1 \cup {""})
      fails == directories_raises \/ (missing # {} /\ ~io_ok)
      files2 == IF fails THEN files1
                ELSE [p \in DOMAIN files1 \cup missing |->
                        IF p \in DOMAIN files1 THEN files1[p]
                        ELSE [kind |-> "dir", data |-> <<>>]]
  IN  IF DOMAIN m._config # {}
      THEN [module |-> [m EXCEPT !.ret = Some(config_value(m))], files |-> files,
            raised |-> FALSE]
      ELSE [module |-> [loaded EXCEPT !.ret = IF fails THEN None
                                               ELSE Some(config_value(loaded))],
            files |-> files2, raised |-> fails]

\* lines 89-93
get_config(m, files, io_ok) ==
  IF DOMAIN m._config = {} THEN load_config(m, files, "config.yaml", io_ok)
  ELSE [module |-> [m EXCEPT !.ret = Some(config_value(m))], files |-> files, raised |-> FALSE]

(***************************************************************************)
(* Inputs                                                                   *)
(***************************************************************************)
\* a dict with the key k when the optional o is given, the empty dict otherwise
Opt(k, o) == IF o = None THEN <<>> ELSE (k :> o[1])

RECURSIVE SeqsUpTo(_, _)
SeqsUpTo(S, n) ==
  IF n = 0 THEN {<<>>}
  ELSE LET shorter == SeqsUpTo(S, n - 1)
       IN  shorter \cup {Append(l, x) : l \in {q \in shorter : Len(q) = n - 1}, x \in S}

NoAuthorData == <<>>

AuthorPool ==
  { [firstName |-> "Joao", lastName |-> "Silva"],
    [lastName |-> "Costa"],
    [name |-> "Ana Santos"],
    [firstName |-> "J.", lastName |-> "A"],
    NoAuthorData }

AuthorLists == SeqsUpTo(AuthorPool, MaxAuthors)

\* items that vary in their authors
AuthorItems ==
  { ("authors" :> as) @@ Opt("date", d) : as \in AuthorLists, d \in {None, Some("2021")} }

\* items that vary in their date
DateItems ==
  { as @@ Opt("date", d) @@ Opt("publisher", p)
      : as \in {<<>>, [authors |-> <<[firstName |-> "Joao", lastName |-> "Silva"]>>]},
        d \in {None, Some(""), Some("2020-03-01"), Some("202"), Some("maio 2020"),
               Some("2020"), Some("20a0-01")},
        p \in {None, Some("Atlas")} }

Extras ==
  { <<>>,
    [publicationTitle |-> "Revista", volume |-> "10", issue |-> "2", pages |-> "45-67",
     url |-> "https://e.com/10.1/x", accessDate |-> "10 dez. 2023", doi |-> "10.1/x",
     local_pdf_path |-> "/d/a.pdf"],
    [edition |-> "5", place |-> "Sao Paulo", series |-> "Manuais", seriesNumber |-> "3",
     doi |-> "10.1/y", local_pdf_path |-> "/d/m.pdf"],
    [subtitle |-> "Uma analise", url |-> "https://e.com/a", edition |-> "rev."],
    [volume |-> "2023", pages |-> "p. 7", journalPlace |-> "Rio"] }

\* items that vary in the fields the entry point and the citation fall back to
FieldItems ==
  { Opt("itemType", ty) @@ as @@ Opt("title", t) @@ Opt("publisher", p) @@ Opt("date", d) @@ e
      : ty \in {None, Some("webpage"), Some("book"), Some("journalArticle"), Some("report")},
        as \in {<<>>, [authors |-> <<>>], [authors |-> <<NoAuthorData>>],
                [authors |-> <<[firstName |-> "Joao", lastName |-> "Silva"]>>]},
        t \in {None, Some(""), Some("Guia Completo de Python para Analise de Dados"),
               Some("Fim..."), Some("Lei  Geral")},
        p \in {None, Some("Atlas")},
        d \in {None, Some("2023")},
        e \in Extras }

\* items whose only author is given by a name alone
NameItems ==
  { [authors |-> <<[name |-> n]>>] @@ Opt("date", d)
      : n \in {"Madonna", "Ana Santos", "Ana  Santos", "Ana ", "Jose da Silva"},
        d \in {None, Some("2020")} }

\* items whose author has a given name of one or two characters, or initials
InitialItems ==
  { [authors |-> <<[firstName |-> fn, lastName |-> "Silva"]>>]
      : fn \in {"J", "j", "j.", "Jo", "J.P."} }

\* items that vary in their url and access date
UrlItems ==
  { [title |-> "Guia"] @@ Opt("url", u) @@ Opt("accessDate", ad)
      : u \in {None, Some("https://e.com/a/../b.pdf"), Some("https://e.com/a")},
        ad \in {None, Some(""), Some("10 dez. 2023")} }

\* items that vary in the path of their local copy
DownloadItems ==
  { [authors |-> <<[lastName |-> a]>>, title |-> "Guia"] @@ Opt("local_pdf_path", lp)
      : a \in {"Costa", "Silva"},
        lp \in {None, Some(""), Some("/d/a.pdf"), Some("../d/a.pdf")} }

\* the items of bibliographies with and without local copies
DownloadPool ==
  { [authors |-> <<[lastName |-> "Costa"]>>, title |-> "Guia", local_pdf_path |-> "/d/a.pdf"],
    [authors |-> <<[lastName |-> "Alves"]>>, title |-> "Guia", local_pdf_path |-> "/d/b.pdf"],
    [authors |-> <<[lastName |-> "Braga"]>>, title |-> "Guia"] }

\* items of a bibliography whose first author entry has, or has not, a surname
LeadPool ==
  { [authors |-> <<NoAuthorData, [lastName |-> "Costa"]>>, title |-> "Guia"],
    [authors |-> <<[lastName |-> "Silva"]>>, title |-> "Guia"] }

\* the items of the module's example run (lines 342-405)
example_corp_author == <<[name |-> "Instituto Brasileiro de Geografia e Estatistica"]>>

item2_book ==
  [itemType |-> "book", authors |-> <<[firstName |-> "Joao", lastName |-> "Silva"]>>,
   title |-> "Manual de Direito Civil",
   edition |-> "5", place |-> "Sao Paulo", publisher |-> "Editora Juridica Atlas",
   date |-> "2020", series |-> "Manuais Juridicos Essenciais", seriesNumber |-> "3",
   local_pdf_path |-> "/downloads/manual_civil.pdf"]

item4_webpage_no_author ==
  [itemType |-> "webpage", title |-> "Guia Completo de Python para Analise de Dados",
   url |-> "https://www.pythontotal.com/guia-python-dados", accessDate |-> "01 jan. 2024",
   date |-> "2023"]

\* item1_article, item2_book, item3_webpage_corp_author, item4_webpage_no_author,
\* item5_book_publisher_as_author and item6_another_silva
ExampleItems ==
  { [itemType |-> "journalArticle",
     authors |-> <<[firstName |-> "Ana", lastName |-> "Costa"],
                   [firstName |-> "Carlos", lastName |-> "Santos"]>>,
     title |-> "O impacto da inteligencia artificial no direito processual",
     subtitle |-> "Uma analise contemporanea",
     publicationTitle |-> "Revista Brasileira de Direito Tecnologico", volume |-> "10",
     issue |-> "2", pages |-> "45-67", date |-> "2022-06-15",
     url |-> "https://example.com/artigo_ia.pdf", accessDate |-> "10 dez. 2023",
     doi |-> "10.1234/rbdt.v10i2.5678", local_pdf_path |-> "/downloads/artigo_ia.pdf"],
    item2_book,
    [itemType |-> "webpage", authors |-> example_corp_author,
     title |-> "Censo Demografico 2022: Primeiros Resultados",
     url |-> "https://www.ibge.gov.br/censo2022", accessDate |-> "05 ago. 2023",
     date |-> "2023-07-28"],
    item4_webpage_no_author,
    [itemType |-> "book", title |-> "Relatorio Anual de Atividades 2022",
     place |-> "Brasilia", publisher |-> "Ministerio da Economia", date |-> "2023"],
    [itemType |-> "book", authors |-> <<[firstName |-> "Mariana", lastName |-> "Silva"]>>,
     title |-> "Direito Constitucional Avancado", edition |-> "2",
     place |-> "Rio de Janeiro", publisher |-> "Editora Forense", date |-> "2019"] }

\* the inputs of the scenarios A, B, C, E and F
scenario_a == [authors |-> <<[firstName |-> "Joao", lastName |-> "Silva"]>>, date |-> "2020-03-01"]
scenario_b == [authors |-> <<[lastName |-> "Costa"], [lastName |-> "Santos"]>>, date |-> "2022"]
scenario_c == [authors |-> <<[lastName |-> "A"], [lastName |-> "B"], [lastName |-> "C"]>>,
               date |-> "2021"]
scenario_e == [authors |-> <<>>]
scenario_f_2019 == [authors |-> <<[lastName |-> "SILVA"]>>, date |-> "2019"]
scenario_f_2020 == [authors |-> <<[lastName |-> "SILVA"]>>, date |-> "2020"]

ScenarioItems == {scenario_a, scenario_b, scenario_c, scenario_e}

\* the items bibliographies are made of: equal and different sort keys
SortPool ==
  { scenario_f_2019, scenario_f_2020, item4_webpage_no_author,
    [authors |-> <<[lastName |-> "Silva"]>>, title |-> "Zoneamento", date |-> "2019"],
    [authors |-> <<[lastName |-> "Silva"]>>, title |-> "Zoneamento", date |-> "2019",
     url |-> "https://e.com/z"],
    [authors |-> <<[lastName |-> "Silva"]>>, title |-> "Aforamento"],
    [publisher |-> "Atlas", title |-> "Guia"],
    [title |-> "Fim..."] }

\* items of one entry point: without a date, and with the year 0000
Year0000Pool ==
  { [authors |-> <<[lastName |-> "Silva"]>>, title |-> "Anais", date |-> "0000-01-01"],
    [authors |-> <<[lastName |-> "Silva"]>>, title |-> "Boletim"] }

\* items of every type of the type map, of types written otherwise, and
\* without a type
TypeItems ==
  { Opt("itemType", ty) @@ [title |-> "Guia"] @@ tg
      : ty \in {Some(t) : t \in DOMAIN type_map} \cup {None, Some(""), Some("Book"), Some("misc")},
        tg \in {<<>>, [tags |-> <<"IA", "Direito">>]} }

ItemLists ==
  {<<it>> : it \in AuthorItems \cup DateItems \cup FieldItems \cup ExampleItems
                  \cup ScenarioItems \cup NameItems \cup InitialItems
                  \cup UrlItems \cup DownloadItems}
  \cup SeqsUpTo(SortPool, MaxItems) \cup SeqsUpTo(Year0000Pool, MaxItems)
  \cup SeqsUpTo(DownloadPool, MaxItems) \cup SeqsUpTo(LeadPool, MaxItems)

\* items with keys that are absent, None or given
MalformedItems ==
  { Opt("itemType", ty) @@ as @@ Opt("title", t) @@ Opt("subtitle", st) @@ Opt("place", pl)
    @@ Opt("publisher", p) @@ Opt("date", d)
      : ty \in {None, Some("book"), Some("journalArticle"), Some("webpage")},
        as \in {<<>>, [authors |-> <<[firstName |-> "Joao", lastName |-> "Silva"]>>]},
        t \in {None, Some(PyNone), Some("Guia")},
        st \in {None, Some(PyNone), Some("Parte")},
        pl \in {None, Some(PyNone)},
        p \in {None, Some(PyNone), Some("Atlas")},
        d \in {None, Some(PyNone), Some("2020")} }

MalformedSortPool ==
  { [title |-> PyNone], [title |-> PyNone, itemType |-> "book"], [title |-> "Guia"],
    [date |-> PyNone, publicationTitle |-> PyNone, pages |-> PyNone, accessDate |-> PyNone,
     url |-> "https://e.com/a", itemType |-> "journalArticle"] }

MalformedItemLists ==
  {<<it>> : it \in MalformedItems} \cup SeqsUpTo(MalformedSortPool, MaxItems)

(***************************************************************************)
(* The caller: a list of item records and the calls made on it              *)
(***************************************************************************)
NoCall == [op |-> "none", i |-> 0, page |-> None, flag |-> FALSE]

Init ==
  /\ items \in ItemLists
  /\ call = NoCall
  /\ out = ""
  /\ raised = FALSE
  /\ disk = NoFiles
  /\ hl = NoHighlight
  /\ dl = NoDownloader
  /\ cfg = NoModule

FormatInTextCitation(i, page) ==
  /\ i \in 1..Len(items)
  /\ call' = [op |-> "format_in_text_citation", i |-> i, page |-> page, flag |-> FALSE]
  /\ out' = format_in_text_citation(items[i], page)
  /\ raised' = FALSE
  /\ items' = items
  /\ UNCHANGED <<disk, hl, dl, cfg>>

FormatBibliographyEntry(i, include_download_link) ==
  /\ i \in 1..Len(items)
  /\ call' = [op |-> "format_bibliography_entry", i |-> i, page |-> None,
              flag |-> include_download_link]
  /\ raised' = format_bibliography_entry_raises(items[i])
  /\ out' = IF format_bibliography_entry_raises(items[i]) THEN out
            ELSE format_bibliography_entry(items[i], include_download_link)
  /\ items' = items
  /\ UNCHANGED <<disk, hl, dl, cfg>>

GenerateBibliography(include_download_links) ==
  /\ call' = [op |-> "generate_bibliography", i |-> 0, page |-> None,
              flag |-> include_download_links]
  /\ raised' = generate_bibliography_raises(items)
  /\ out' = IF generate_bibliography_raises(items) THEN out
            ELSE generate_bibliography(items, include_download_links)
  /\ items' = items_after_sorted(items)
  /\ UNCHANGED <<disk, hl, dl, cfg>>

Next ==
  \/ \E i \in 1..MaxItems, page \in {None, Some(""), Some("15")} : FormatInTextCitation(i, page)
  \/ \E i \in 1..MaxItems, flag \in BOOLEAN : FormatBibliographyEntry(i, flag)
  \/ \E flag \in BOOLEAN : GenerateBibliography(flag)

Spec == Init /\ [][Next]_vars

\* the same calls on items whose keys may hold None
InitMalformed ==
  /\ items \in MalformedItemLists
  /\ call = NoCall
  /\ out = ""
  /\ raised = FALSE
  /\ disk = NoFiles
  /\ hl = NoHighlight
  /\ dl = NoDownloader
  /\ cfg = NoModule

SpecMalformed == InitMalformed /\ [][Next]_vars

(***************************************************************************)
(* The PDF processor: the files on the disk, the calls of                   *)
(* highlight_text_in_pdf, which run step by step, and the calls of          *)
(* find_relevant_snippet                                                    *)
(***************************************************************************)
Page(t) == [text |-> t, annots |-> {}]

\* the documents: two pages with citations, one page without, a page of
\* white space, and a document without pages
Docs ==
  { <<Page("O Codigo Civil, em seu Art. 123, estabelece normas.\n"),
      Page("Outras disposicoes no Art. 456 e no art. 123.\n")>>,
    <<Page("Texto sem citacao.\n")>>,
    <<Page(" \n")>>,
    <<>> }

Texts == {"Art. 123", "ART. 456", "Lei 9.999", ""}

\* the contents find_relevant_snippet is called with directly
Contents == {extract_text_from_pdf("in.pdf" :> d, "in.pdf") : d \in Docs}

InitPdf ==
  /\ items = <<>>
  /\ call = NoCall
  /\ out = ""
  /\ raised = FALSE
  /\ disk \in {"in.pdf" :> d : d \in Docs}
  /\ hl = NoHighlight
  /\ dl = NoDownloader
  /\ cfg = NoModule

\* lines 104-110: the call; a missing file ends it at once
HighlightTextInPdf(pdf_path, text_to_highlight, output_pdf_path, citation_type, use_llm_fallback) ==
  /\ hl.pc \in {"idle", "done"}
  /\ hl' = LET frame == [NoHighlight EXCEPT !.pdf_path = pdf_path,
                                            !.text_to_highlight = text_to_highlight,
                                            !.output_pdf_path = output_pdf_path,
                                            !.citation_type = citation_type,
                                            !.use_llm_fallback = use_llm_fallback]
           IN  IF pdf_path \notin DOMAIN disk
               THEN [frame EXCEPT !.pc = "done", !.ret = Some(FALSE)]
               ELSE after_search([frame EXCEPT !.pc = "search", !.doc = disk[pdf_path],
                                               !.page_num = 1])
  /\ UNCHANGED <<items, call, out, raised, disk, dl, cfg>>

\* lines 112-121: one round of the loop over the pages
SearchPage ==
  /\ hl.pc = "search"
  /\ hl.page_num <= Len(hl.doc)
  /\ hl' = after_search(
             [hl EXCEPT !.doc[hl.page_num] =
                          add_highlight_annots(@, hl.text_to_highlight,
                                               highlight_color(hl.citation_type)),
                        !.highlight_performed =
                          @ \/ search_for(hl.doc[hl.page_num], hl.text_to_highlight) # {},
                        !.page_num = @ + 1])
  /\ UNCHANGED <<items, call, out, raised, disk, dl, cfg>>

\* lines 124-161
LlmFallback ==
  /\ hl.pc = "fallback"
  /\ hl' = [llm_fallback(hl, disk) EXCEPT !.pc = "save"]
  /\ UNCHANGED <<items, call, out, raised, disk, dl, cfg>>

\* lines 164-179: doc.save writes the file, or raises; it raises when the
\* output path is the path of the file that is open
SaveAndReturn(saved) ==
  /\ hl.pc = "save"
  /\ saved => hl.highlight_performed /\ hl.output_pdf_path # hl.pdf_path
  /\ disk' = IF saved THEN (hl.output_pdf_path :> hl.doc) @@ disk ELSE disk
  /\ hl' = [hl EXCEPT !.pc = "done", !.highlight_performed = saved, !.ret = Some(saved)]
  /\ UNCHANGED <<items, call, out, raised, dl, cfg>>

\* a call of LLMIntegration.find_relevant_snippet from outside
FindRelevantSnippet(citation_text, pdf_content) ==
  /\ hl.pc \in {"idle", "done"}
  /\ call' = [op |-> "find_relevant_snippet", citation_text |-> citation_text,
              pdf_content |-> pdf_content]
  /\ out' = find_relevant_snippet(citation_text, pdf_content)
  /\ UNCHANGED <<items, raised, disk, hl, dl, cfg>>

NextPdf ==
  \/ \E pdf_path \in {"in.pdf", "missing.pdf"},
        text_to_highlight \in Texts, output_pdf_path \in {"out.pdf", "in.pdf"},
        citation_type \in {"secondary", "tertiary"}, use_llm_fallback \in BOOLEAN :
       HighlightTextInPdf(pdf_path, text_to_highlight, output_pdf_path, citation_type,
                          use_llm_fallback)
  \/ SearchPage
  \/ LlmFallback
  \/ \E saved \in BOOLEAN : SaveAndReturn(saved)
  \/ \E citation_text \in Texts \cup {PyNone}, pdf_content \in Contents :
       FindRelevantSnippet(citation_text, pdf_content)

SpecPdf == InitPdf /\ [][NextPdf]_vars

(***************************************************************************)
(* The Zotero export: calls of create_zotero_json_item on the items         *)
(***************************************************************************)
ZoteroItemLists ==
  {<<it>> : it \in TypeItems \cup ExampleItems \cup NameItems}
  \cup SeqsUpTo(SortPool, MaxItems)

InitZotero ==
  /\ items \in ZoteroItemLists
  /\ call = NoCall
  /\ out = ""
  /\ raised = FALSE
  /\ disk = NoFiles
  /\ hl = NoHighlight
  /\ dl = NoDownloader
  /\ cfg = NoModule

\* create_zotero_json_item(items[i], pdf_path); pdf_exists is what
\* os.path.exists(pdf_path) answers
CreateZoteroJsonItem(i, pdf_path, pdf_exists) ==
  /\ i \in 1..Len(items)
  /\ pdf_exists => pdf_path # None
  /\ call' = [op |-> "create_zotero_json_item", i |-> i, pdf_path |-> pdf_path,
              pdf_exists |-> pdf_exists]
  /\ out' = create_zotero_json_item(items[i], pdf_path, pdf_exists)
  /\ raised' = FALSE
  /\ items' = items
  /\ UNCHANGED <<disk, hl, dl, cfg>>

NextZotero ==
  \E i \in 1..MaxItems, pdf_path \in {None,
        Some("/d/a.pdf"), Some("a.pdf")}, pdf_exists \in BOOLEAN :
    CreateZoteroJsonItem(i, pdf_path, pdf_exists)

SpecZotero == InitZotero /\ [][NextZotero]_vars

(***************************************************************************)
(* SourceDownloader: downloads into one directory                           *)
(***************************************************************************)
MaxDownloads == 3

Responses ==
  { [status |-> "ok", content_type |-> "application/pdf", content |-> "%PDF-a"],
    [status |-> "ok", content_type |-> "Application/PDF", content |-> "%PDF-b"],
    [status |-> "ok", content_type |-> "text/html", content |-> "<html>"],
    [status |-> "request_error", content_type |-> "", content |-> ""],
    [status |-> "open_error", content_type |-> "application/pdf", content |-> "%PDF-a"],
    [status |-> "stream_error", content_type |-> "application/pdf", content |-> "%PDF-a"] }

\* lines 15-23: SourceDownloader(download_dir), over a directory that is empty
\* or holds a file already
InitDownload ==
  /\ items = <<>>
  /\ call = NoCall
  /\ out = ""
  /\ raised = FALSE
  /\ disk \in {NoFiles, "downloads/a.pdf" :> "%PDF-old"}
  /\ hl = NoHighlight
  /\ dl = [NoDownloader EXCEPT !.download_dir = "downloads"]
  /\ cfg = NoModule

DownloadDirectPdf(pdf_url, custom_filename, response) ==
  /\ Cardinality(DOMAIN disk) < MaxDownloads
  /\ LET r == download_direct_pdf(disk, dl.download_dir, pdf_url, custom_filename, response)
     IN  /\ disk' = r.files
         /\ dl' = [dl EXCEPT !.called = TRUE, !.status = response.status, !.ret = r.ret,
                             !.before = disk,
                             !.returned = IF dl.ret # None THEN dl.returned \cup {dl.ret[1]}
                                          ELSE dl.returned]
  /\ UNCHANGED <<items, call, out, raised, hl, cfg>>

NextDownload ==
  \E pdf_url \in { "https://e.com/docs/a.pdf",
        "https://e.com/A.PDF?v=1", "https://e.com/paper",
        "https://e.com/x.tar.gz", "https://e.com/.pdf" },
        custom_filename \in {None, Some("a"), Some("a.pdf")}, response \in Responses :
    DownloadDirectPdf(pdf_url, custom_filename, response)

SpecDownload == InitDownload /\ [][NextDownload]_vars

(***************************************************************************)
(* Configuration: load_config and get_config of src/src/utils.py on a disk  *)
(* that holds config.yaml or alt.yaml, or neither.                          *)
(***************************************************************************)
ConfigPaths == {"config.yaml", "alt.yaml"}

\* a file: a YAML mapping, an empty file (safe_load gives None), a YAML
\* scalar, or text safe_load rejects
ConfigFiles ==
  {[kind |-> "mapping", data |-> d] :
     d \in { <<>>,
             [directories |-> Mapping([download |-> "d2"])],
             [directories |-> Mapping([download |-> "d2", logs |-> "l2"])],
             [llm |-> Mapping([default_model |-> "m2"])],
             [directories |-> Scalar("none")],
             [extra |-> Scalar("x")],
             [extra |-> Mapping([a |-> "b"])],
             [logging |-> Mapping([level |-> "DEBUG"]), llm |-> Scalar("off")] }}
    \cup {[kind |-> k, data |-> <<>>] : k \in {"empty", "scalar", "invalid"}}

InitConfig ==
  /\ items = <<>>
  /\ call = NoCall
  /\ out = ""
  /\ raised = FALSE
  /\ \E present \in SUBSET ConfigPaths :
       \E f \in [present -> ConfigFiles] :
         /\ Cardinality({p \in present : f[p].kind # "mapping"}) <= 1
         /\ disk = f
  /\ hl = NoHighlight
  /\ dl = NoDownloader
  /\ cfg = [DEFAULT_CONFIG |-> DEFAULT_CONFIG, _config |-> <<>>, ret |-> None]

LoadConfig(config_path, io_ok) ==
  LET r == load_config(cfg, disk, config_path, io_ok)
  IN  /\ cfg' = r.module
      /\ disk' = r.files
      /\ raised' = r.raised
      /\ call' = [op |-> "load_config", config_path |-> config_path]
      /\ UNCHANGED <<items, out, hl, dl>>

GetConfig(io_ok) ==
  LET r == get_config(cfg, disk, io_ok)
  IN  /\ cfg' = r.module
      /\ disk' = r.files
      /\ raised' = r.raised
      /\ call' = [op |-> "get_config", config_path |-> ""]
      /\ UNCHANGED <<items, out, hl, dl>>

NextConfig ==
  \/ \E config_path \in ConfigPaths, io_ok \in BOOLEAN : LoadConfig(config_path, io_ok)
  \/ \E io_ok \in BOOLEAN : GetConfig(io_ok)

SpecConfig == InitConfig /\ [][NextConfig]_vars

(***************************************************************************)
(* Properties                                                               *)
(***************************************************************************)
InText == call.op = "format_in_text_citation"
BibEntry == call.op = "format_bibliography_entry"
GenBib == call.op = "generate_bibliography"

\* the item of the last call
TheItem == items[call.i]

AllResolvable(authors) ==
  \A k \in 1..Len(authors) : resolve_author(authors[k]).last_name # ""

\* C1: when every one of the n authors has a surname and the date yields a
\* year Y, the in-text citation starts with "(" followed by the uppercased
\* surname (n = 1), "SURNAME1; SURNAME2" (n = 2) or "SURNAME1 et al." (n >= 3),
\* followed by ", Y"; a two-author and a three-author example give exactly
\* "(COSTA; SANTOS, 2022)" and "(A et al., 2021)".
C1_AuthorCollapsing ==
  InText =>
    LET authors == get_authors(TheItem)
        n == Len(authors)
        surname(k) == upper(resolve_author(authors[k]).last_name)
        year == _get_year_from_date(get_opt(TheItem, "date"))
        author_part == IF n = 1 THEN surname(1)
                       ELSE IF n = 2 THEN surname(1) \o "; " \o surname(2)
                            ELSE surname(1) \o " et al."
    IN  /\ (n >= 1 /\ AllResolvable(authors) /\ year # None)
             => startswith(out, "(" \o author_part \o ", " \o year[1])
        /\ (TheItem = scenario_b /\ call.page = None) => out = "(COSTA; SANTOS, 2022)"
        /\ (TheItem = scenario_c /\ call.page = None) => out = "(A et al., 2021)"

C1_Witness ==
  /\ InText
  /\ Len(get_authors(TheItem)) >= 3
  /\ AllResolvable(get_authors(TheItem))
  /\ TheItem = scenario_c
  /\ out = "(A et al., 2021)"

\* the first element of the list of parts of a bibliography entry
Lead == bib_parts(TheItem, call.flag)[1]

\* the fallback order of C2 with "authors present" read as a non-empty authors list
LeadByAuthorsList(item) ==
  IF Len(get_authors(item)) > 0 THEN _format_authors_abnt(get_authors(item), FALSE)
  ELSE IF truthy(item, "publisher") THEN upper(item["publisher"]) \o "."
       ELSE IF truthy(item, "title") THEN upper(item["title"]) \o "."
            ELSE "[S.A.]"

\* the fallback order of C2 with "authors present" read as a non-empty author string
LeadByAuthorString(item) ==
  IF _format_authors_abnt(get_authors(item), FALSE) # ""
  THEN _format_authors_abnt(get_authors(item), FALSE)
  ELSE IF truthy(item, "publisher") THEN upper(item["publisher"]) \o "."
       ELSE IF truthy(item, "title") THEN upper(item["title"]) \o "."
            ELSE "[S.A.]"

\* C2 as stated: the leading segment of a bibliography entry follows the
\* order authors -> publisher -> title -> "[S.A.]", whichever of the two
\* readings of "authors present" is taken.
C2_TotalFallbackOrder ==
  BibEntry => (Lead = LeadByAuthorsList(TheItem) \/ Lead = LeadByAuthorString(TheItem))

\* C2 (amended): the leading segment of a bibliography entry is the
\* bibliography-mode author string when that string is not empty; otherwise
\* the uppercased publisher followed by "." when a publisher is present and
\* the authors list is empty; otherwise the uppercased title followed by "."
\* when a title is present; otherwise "[S.A.]". The entry returned starts with
\* that segment whenever the punctuation clean-up leaves the segment as it is.
C2_EntryPointFallback ==
  BibEntry =>
    LET author_str == _format_authors_abnt(get_authors(TheItem), FALSE)
        expected == IF author_str # "" THEN author_str
                    ELSE IF truthy(TheItem, "publisher") /\ Len(get_authors(TheItem)) = 0
                         THEN upper(TheItem["publisher"]) \o "."
                         ELSE IF truthy(TheItem, "title") THEN upper(TheItem["title"]) \o "."
                              ELSE "[S.A.]"
    IN  /\ Lead = expected
        /\ (normalize_punctuation(expected) = expected /\ strip(expected) = expected)
             => startswith(out, SubSeq(expected, 1, Len(expected) - 1))

C2_Witness ==
  /\ BibEntry
  /\ get_authors(TheItem) = <<NoAuthorData>>
  /\ truthy(TheItem, "publisher")
  /\ truthy(TheItem, "title")
  /\ Lead = upper(TheItem["title"]) \o "."
  /\ startswith(out, "GUIA COMPLETO DE PYTHON PARA ANALISE DE DADOS.")

\* C3: a bibliography entry never contains " ,", " .", ".." or ",.".
C3_PunctuationInvariant ==
  BibEntry =>
    /\ ~contains(out, " ,")
    /\ ~contains(out, " .")
    /\ ~contains(out, "..")
    /\ ~contains(out, ",.")

\* the orders in which n entries can be emitted
Perms(n) == {p \in [1..n -> 1..n] : \A i, j \in 1..n : p[i] = p[j] => i = j}

\* a key is smaller when its first differing component is smaller
KeySmaller(a, b) ==
  \E c \in 1..3 : (\A d \in 1..(c - 1) : a[d] = b[d]) /\ str_lt(a[c], b[c])

FirstLastName(item) ==
  IF authors_truthy(item) THEN upper(get(item["authors"][1], "lastName", "")) ELSE ""

\* C4: the bibliography is the entries of the items in an order p in which the
\* sort keys (entry point, year, uppercased title) ascend, compared component
\* by component, and items with equal keys keep their input order; of two
\* items with the same first-author surname the one of 2019 comes before the
\* one of 2020.
C4_SortedByKeyStable ==
  (GenBib /\ Len(items) > 0) =>
    \E p \in Perms(Len(items)) :
      /\ out = join("\n\n", [i \in 1..Len(items) |->
                               format_bibliography_entry(items[p[i]], call.flag)])
      /\ \A i, j \in 1..Len(items) :
           i < j => \/ KeySmaller(sort_key(items[p[i]]), sort_key(items[p[j]]))
                    \/ /\ sort_key(items[p[i]]) = sort_key(items[p[j]])
                       /\ p[i] < p[j]
      /\ \A i, j \in 1..Len(items) :
           ( /\ FirstLastName(items[p[i]]) # ""
             /\ FirstLastName(items[p[i]]) = FirstLastName(items[p[j]])
             /\ get(items[p[i]], "date", "") = "2019"
             /\ get(items[p[j]], "date", "") = "2020" ) => i < j

C4_Witness ==
  /\ GenBib
  /\ items = <<scenario_f_2020, scenario_f_2019>>
  /\ out = "SILVA. [S.T.]. 2019.\n\nSILVA. [S.T.]. 2020."

\* C5: generating the bibliography of the items in the order in which they
\* were emitted gives the same order and the same output.
C5_ResortIsIdentity ==
  GenBib =>
    LET emitted == sorted_items(items)
    IN  /\ sorted_items(emitted) = emitted
        /\ generate_bibliography(emitted, call.flag) = out

C5_Witness ==
  /\ GenBib
  /\ Len(items) >= 2
  /\ sorted_items(items) # items
  /\ sorted_items(sorted_items(items)) = sorted_items(items)
  /\ out = generate_bibliography(sorted_items(items), call.flag)

DateYear(item) ==
  IF has(item, "date") /\ Len(item["date"]) >= 4
     /\ \A k \in 1..4 : Ch(item["date"], k) \in Digits
  THEN Some(SubSeq(item["date"], 1, 4))
  ELSE None

\* C7: the in-text citation is "[s.n.]" exactly when the fallback chain leaves
\* no author string and the date yields no year, whatever the page; otherwise
\* it is wrapped in parentheses; an item with empty authors and no publisher,
\* date or title gives "[s.n.]".
C7_SentinelExactly ==
  InText =>
    /\ out = "[s.n.]" <=> (citation_author_str(TheItem) = "" /\ DateYear(TheItem) = None)
    /\ out # "[s.n.]" => (startswith(out, "(") /\ endswith(out, ")"))
    /\ ( /\ Len(get_authors(TheItem)) = 0
         /\ ~truthy(TheItem, "publisher")
         /\ ~has(TheItem, "date")
         /\ ~truthy(TheItem, "title") ) => out = "[s.n.]"

C7_Witness ==
  /\ InText
  /\ TheItem = scenario_e
  /\ call.page = Some("15")
  /\ out = "[s.n.]"

\* C8: an in-text citation other than the sentinel is "(" + parts joined by
\* ", " + ")", the parts being the author string if not empty, the year (the
\* first 4 characters of the date when they are digits, else "s.d.") and
\* "p. " + page when a page is given; author Silva, date "2020-03-01" and page
\* "15" give "(SILVA, 2020, p. 15)".
C8_Assembly ==
  InText =>
    LET author_str == citation_author_str(TheItem)
        year_str == IF DateYear(TheItem) # None THEN DateYear(TheItem)[1] ELSE "s.d."
        parts == (IF author_str # "" THEN <<author_str>> ELSE <<>>)
                 \o <<year_str>>
                 \o (IF call.page # None /\ call.page[1] # ""
                     THEN <<"p. " \o call.page[1]>> ELSE <<>>)
    IN  /\ out # "[s.n.]" => out = "(" \o join(", ", parts) \o ")"
        /\ (TheItem = scenario_a /\ call.page = Some("15")) => out = "(SILVA, 2020, p. 15)"

C8_Witness ==
  /\ InText
  /\ TheItem = scenario_a
  /\ call.page = Some("15")
  /\ out = "(SILVA, 2020, p. 15)"

C10_ScenarioD ==
  (InText /\ TheItem = item4_webpage_no_author /\ call.page = None)
    => out = "(GUIA COMPLETO DE PYTHON..., 2023)"

\* C11: an author given as a single name field is never split: for the item
\* whose only author is the name "Instituto Brasileiro de Geografia e
\* Estatistica" and whose date is "2023-07-28", the in-text citation is
\* "(INSTITUTO BRASILEIRO DE GEOGRAFIA E ESTATISTICA, 2023)".
C11_NameNeverSplit ==
  (InText /\ get_authors(TheItem) = example_corp_author
          /\ get(TheItem, "date", "") = "2023-07-28" /\ call.page = None)
    => out = "(INSTITUTO BRASILEIRO DE GEOGRAFIA E ESTATISTICA, 2023)"

\* the text behind and in front of the last space of a name
Max(S) == CHOOSE x \in S : \A y \in S : x >= y
SpacesOf(name) == {i \in 1..Len(name) : Ch(name, i) = " "}
AfterLastSpace(name) ==
  IF SpacesOf(name) = {} THEN name ELSE SubSeq(name, Max(SpacesOf(name)) + 1, Len(name))
BeforeLastSpace(name) ==
  IF SpacesOf(name) = {} THEN "" ELSE SubSeq(name, 1, Max(SpacesOf(name)) - 1)

NameOnly(author) == ~truthy(author, "lastName") /\ truthy(author, "name")

C13_NeverRaises ==
  (InText \/ BibEntry \/ GenBib) => ~raised

NewlineCount(s) == Cardinality({i \in 1..Len(s) : Ch(s, i) = "\n"})

\* C14: the bibliography of the empty list is the empty string; the
\* bibliography of n items is the entries of the n items, each item once, in
\* some order, with exactly two newline characters between consecutive
\* entries and none behind the last.
C14_EntriesJoined ==
  GenBib =>
    LET n == Len(items)
        entry(k) == format_bibliography_entry(items[k], call.flag)
    IN  /\ n = 0 => out = ""
        /\ n > 0 =>
             /\ \E p \in Perms(n) :
                  /\ startswith(out, entry(p[1]))
                  /\ endswith(out, entry(p[n]))
                  /\ out = join("\n\n", [k \in 1..n |-> entry(p[k])])
             /\ NewlineCount(out) = 2 * (n - 1)
             /\ ~endswith(out, "\n")

C14_Witness ==
  /\ GenBib
  /\ Len(items) = 2
  /\ items[1] # items[2]
  /\ NewlineCount(out) = 2
  /\ contains(out, "\n\n")

\* C15: a bibliography entry is not empty, ends with ".", "]", ")", "?" or
\* "!", and does not end with "]." or ").".
C15_TerminalPunctuation ==
  BibEntry =>
    /\ out # ""
    /\ \E e \in {".", "]", ")", "?", "!"} : endswith(out, e)
    /\ ~endswith(out, "].")
    /\ ~endswith(out, ").")

C15_Witness ==
  /\ BibEntry
  /\ truthy(TheItem, "series")
  /\ TheItem = item2_book
  /\ ~call.flag
  /\ endswith(out, "(Manuais Juridicos Essenciais, 3)")

\* the order p of the items in which the bibliography `out` lists them
EmittedOrder(p) ==
  out = join("\n\n", [k \in 1..Len(items) |->
                        format_bibliography_entry(items[p[k]], call.flag)])

\* C16 as stated: in the bibliography no item with a date that yields a year
\* comes before an item without such a date that has the same entry point.
C16_UndatedFirst ==
  (GenBib /\ Len(items) > 0) =>
    \E p \in Perms(Len(items)) :
      /\ EmittedOrder(p)
      /\ \A i, j \in 1..Len(items) :
           (i < j /\ sort_entry_point(items[p[i]]) = sort_entry_point(items[p[j]]))
             => ~(DateYear(items[p[i]]) # None /\ DateYear(items[p[j]]) = None)

\* C16: the year of the sort key is "0000" when the date yields no year, and
\* in the bibliography no item whose date yields a year other than "0000"
\* comes before an item without a year that has the same entry point.
C16_UndatedFirstUnlessYear0000 ==
  (GenBib /\ Len(items) > 0) =>
    /\ \A k \in 1..Len(items) :
         sort_key(items[k])[2] = IF DateYear(items[k]) = None THEN "0000"
                                 ELSE DateYear(items[k])[1]
    /\ \E p \in Perms(Len(items)) :
         /\ EmittedOrder(p)
         /\ \A i, j \in 1..Len(items) :
              (i < j /\ sort_entry_point(items[p[i]]) = sort_entry_point(items[p[j]]))
                => ~(/\ DateYear(items[p[i]]) # None
                     /\ DateYear(items[p[i]]) # Some("0000")
                     /\ DateYear(items[p[j]]) = None)

C16_Witness ==
  /\ GenBib
  /\ Len(items) = 2
  /\ sort_entry_point(items[1]) = sort_entry_point(items[2])
  /\ DateYear(items[1]) # None
  /\ DateYear(items[2]) = None
  /\ out = format_bibliography_entry(items[2], call.flag) \o "\n\n"
           \o format_bibliography_entry(items[1], call.flag)

FoundSnippet == call.op = "find_relevant_snippet"

\* the citation text stands nowhere in the PDF content the search looks at
NotFoundIn(citation_text, pdf_content) ==
  ~contains(lower(slice(pdf_content, 0, PromptChars)), lower(citation_text))

\* C17: find_relevant_snippet returns "" when the citation text is not found
\* in the PDF content, and on an error; when a citation text that is not
\* empty is found, it returns a non-empty piece of the PDF content. When the
\* fallback of highlight_text_in_pdf has called it and the text was not
\* found, the branch "no usable snippet" is the one taken.
C17_EmptyWhenNotFound ==
  /\ FoundSnippet =>
       IF call.citation_text = PyNone \/ NotFoundIn(call.citation_text, call.pdf_content)
       THEN out = ""
       ELSE call.citation_text # "" => (out # "" /\ contains(call.pdf_content, out))
  /\ (hl.llm_called
      /\ NotFoundIn(hl.text_to_highlight, extract_text_from_pdf(disk, hl.pdf_path)))
       => hl.branch = "no_usable_snippet"

Zotero == call.op = "create_zotero_json_item"

\* C18: the itemType of the Zotero item is the item's type when that is one of
\* the types of the type map, and "document" when the type is absent, empty
\* or not one of them.
C18_ItemTypeMapping ==
  Zotero =>
    out["itemType"] = IF get(TheItem, "itemType", "") \in DOMAIN type_map
                      THEN TheItem["itemType"]
                      ELSE "document"

IsLetter(c) == \E i \in 1..Len(LowerChars) : c = Ch(LowerChars, i) \/ c = Ch(UpperChars, i)

\* a given name that is a single initial: one letter, or one letter and a period
IsInitial(given) ==
  \/ Len(given) = 1 /\ IsLetter(given)
  \/ Len(given) = 2 /\ IsLetter(Ch(given, 1)) /\ Ch(given, 2) = "."

\* the bibliography rendering of an author with a surname, as C19 words it
RenderedAuthor(author) ==
  LET surname == upper(resolve_author(author).last_name)
      given == resolve_author(author).first_name
  IN  IF given = "" THEN surname \o "."
      ELSE IF IsInitial(given) THEN surname \o ", " \o upper(Ch(given, 1)) \o "."
           ELSE surname \o ", " \o given \o "."

\* C19: in a bibliography entry every author with a surname is rendered, in
\* the order of the input and joined by "; ", as "SURNAME, X." for a given
\* name that is a single initial X, "SURNAME, Given." for a fuller given name
\* in the case it is written in, and "SURNAME." without a given name.
C19_BibliographyAuthors ==
  BibEntry =>
    LET authors == get_authors(TheItem)
        kept == SelectSeq(authors, LAMBDA a : resolve_author(a).last_name # "")
        expected == join("; ", [k \in 1..Len(kept) |-> RenderedAuthor(kept[k])])
    IN  /\ _format_authors_abnt(authors, FALSE) = expected
        /\ Len(kept) > 0 =>
             /\ Lead = expected
             /\ normalize_punctuation(expected) = expected => startswith(out, expected)

C19_Witness ==
  /\ BibEntry
  /\ Len(get_authors(TheItem)) = 3
  /\ startswith(out, "SILVA, Joao.; COSTA.; A, J.")

\* the authors of a list that have a surname
Resolvable(authors) == SelectSeq(authors, LAMBDA a : resolve_author(a).last_name # "")

\* C20: the author string is made of the authors that have a surname, the
\* others are left out: the citation form is the surname (one such author),
\* "A; B" (two) or "A et al." (three or more), whatever the length of the list,
\* and without such an author, or with an empty list, the author string is ""
\* for the citation and for the bibliography; no call raises.
C20_UnresolvableDropped ==
  (InText \/ BibEntry) =>
    LET authors == get_authors(TheItem)
        kept == Resolvable(authors)
        surname(k) == upper(resolve_author(kept[k]).last_name)
        form == IF Len(kept) = 1 THEN surname(1)
                ELSE IF Len(kept) = 2 THEN surname(1) \o "; " \o surname(2)
                     ELSE surname(1) \o " et al."
    IN  /\ ~raised
        /\ Len(kept) = 0 =>
             /\ _format_authors_abnt(authors, TRUE) = ""
             /\ _format_authors_abnt(authors, FALSE) = ""
             /\ InText => ~\E k \in 1..Len(authors) :
                             /\ has(authors[k], "lastName")
                             /\ contains(out, upper(authors[k]["lastName"]) \o ", ")
        /\ Len(kept) > 0 =>
             /\ _format_authors_abnt(authors, TRUE) = form
             /\ _format_authors_abnt(authors, FALSE) # ""
             /\ InText => startswith(out, "(" \o form \o ", ")

C20_Witness ==
  /\ InText
  /\ Len(get_authors(TheItem)) = 3
  /\ Len(Resolvable(get_authors(TheItem))) = 2
  /\ startswith(out, "(SILVA; COSTA, ")


\* the title segment of C21: the title, "[S.T.]" for a missing one, with the
\* subtitle when one is present, in bold for a book, followed by "."
ExpectedTitleSegment(item) ==
  LET title == IF truthy(item, "title") THEN item["title"] ELSE "[S.T.]"
      full == IF truthy(item, "subtitle") THEN title \o ": " \o item["subtitle"] ELSE title
  IN  IF item_type_is(item, "book") THEN "**" \o full \o "**." ELSE full \o "."

\* C21: the title segment is the second part of a bibliography entry exactly
\* when the title is not the entry point; it is "Title: Subtitle" when a
\* subtitle is present, bold exactly for a book, followed by ".", and "[S.T.]"
\* stands for a missing title; a title that is the entry point is not written
\* a second time.
C21_TitleSegment ==
  BibEntry =>
    IF entry_point(TheItem).source = "title"
    THEN /\ title_parts(TheItem) = <<>>
         /\ TheItem["title"] # upper(TheItem["title"]) => ~contains(out, TheItem["title"])
    ELSE /\ title_parts(TheItem) = <<ExpectedTitleSegment(TheItem)>>
         /\ bib_parts(TheItem, call.flag)[2] = ExpectedTitleSegment(TheItem)
         /\ normalize_punctuation(ExpectedTitleSegment(TheItem)) = ExpectedTitleSegment(TheItem)
              => contains(out, ExpectedTitleSegment(TheItem))


\* the place/publisher rule of C22: for a book or a report, unless the title is
\* the entry point and there are no authors, "{place}:" and "{publisher},"
\* with "[S.l.]" and "[s.n.]" for a missing place and publisher; nothing for
\* the other item types
PlacePublisherRule(item) ==
  LET place == IF has(item, "place") THEN item["place"] ELSE "[S.l.]"
      publisher == IF has(item, "publisher") THEN item["publisher"] ELSE "[s.n.]"
      skipped == entry_point(item).source = "title" /\ ~authors_truthy(item)
  IN  place_publisher_parts(item)
        = IF (item_type_is(item, "book") \/ item_type_is(item, "report")) /\ ~skipped
          THEN <<place \o ":", publisher \o ",">>
          ELSE <<>>

\* the lead element is a corporate author or a title, and the place/publisher
\* segment names it once more
LeadDuplicated(item) ==
  \E k \in 1..Len(place_publisher_parts(item)) :
    \/ /\ entry_point(item).source = "publisher"
       /\ contains(upper(place_publisher_parts(item)[k]), upper(item["publisher"]))
    \/ /\ entry_point(item).source = "title"
       /\ contains(upper(place_publisher_parts(item)[k]), upper(item["title"]))

\* C22: the place/publisher segment appears for books and reports only, is
\* skipped when the title is the entry point and there are no authors, and is
\* otherwise "{place}:" ("[S.l.]") followed by "{publisher}," ("[s.n.]"); the
\* corporate author or title that leads the entry is not named again by it.
C22_PlacePublisher ==
  BibEntry => (PlacePublisherRule(TheItem) /\ ~LeadDuplicated(TheItem))


\* lines 139-236: the parts assembled when the year is reached
PartsBeforeYear(item) ==
  <<entry_point(item).part>> \o title_parts(item) \o journal_parts(item)
  \o edition_parts(item) \o place_publisher_parts(item)

\* the year string occurs in one of the last two parts assembled so far
YearInLastTwo(item) ==
  LET parts == PartsBeforeYear(item)
      n == Len(parts)
  IN  \E k \in 1..n : k >= n - 1 /\ contains(parts[k], bib_year(item))

\* C23: the year segment, "{year}." or "s.d.", is appended unless the year
\* string occurs in one of the last two parts assembled so far; when it is not
\* appended, a trailing comma of the last part becomes a period and nothing
\* else changes; every entry contains the year string.
C23_YearSegment ==
  BibEntry =>
    LET parts == PartsBeforeYear(TheItem)
        n == Len(parts)
        year == bib_year(TheItem)
        after == year_step(parts, year)
    IN  /\ year = (IF _get_year_from_date(get_opt(TheItem, "date")) = None THEN "s.d."
                   ELSE _get_year_from_date(get_opt(TheItem, "date"))[1])
        /\ ~YearInLastTwo(TheItem) => after = Append(parts, year \o ".")
        /\ YearInLastTwo(TheItem) =>
             /\ Len(after) = n
             /\ \A k \in 1..(n - 1) : after[k] = parts[k]
             /\ endswith(parts[n], ",")
                  => after[n] = SubSeq(parts[n], 1, Len(parts[n]) - 1) \o "."
             /\ ~endswith(parts[n], ",") => after[n] = parts[n]
        /\ SubSeq(bib_parts(TheItem, call.flag), 1, Len(after)) = after
        /\ contains(out, year)

C23_Witness ==
  /\ BibEntry
  /\ YearInLastTwo(TheItem)
  /\ ~contains(PartsBeforeYear(TheItem)[Len(PartsBeforeYear(TheItem))], "2023")
  /\ contains(out, "v. 2023, p. 7.")
  /\ ~contains(out, "2023.")


\* the access segment of C24
AccessSegment(item) ==
  IF truthy(item, "accessDate") THEN "Acesso em: " \o item["accessDate"] \o "."
  ELSE "Acesso em: [informar data de acesso]."

\* C24: the entry of an item with a url contains "Disponivel em: <{url}>."
\* with the url as supplied, followed at once by "Acesso em: {accessDate}." or,
\* without an access date, by "Acesso em: [informar data de acesso]."; the
\* entry of an item without url contains neither segment. (The period that
\* ends the entry is the matter of the terminal rule: behind "]" it is dropped.)
C24_UrlSegment ==
  BibEntry =>
    IF truthy(TheItem, "url")
    THEN LET segments == "Disponivel em: <" \o TheItem["url"] \o ">. " \o AccessSegment(TheItem)
         IN  \/ contains(out, segments)
             \/ endswith(out, SubSeq(segments, 1, Len(segments) - 1))
    ELSE ~contains(out, "Disponivel em:") /\ ~contains(out, "Acesso em:")


\* the download segment of an item with a local copy
DownloadSegment(item) == "[Download Local: " \o item["local_pdf_path"] \o "]"

\* C25: with the flag set and a local path given, the entry ends with
\* "[Download Local: {path}]"; without the flag or without a path the entry has
\* no such segment; a bibliography holds the segment of each of its items
\* that has a local path exactly when it is made with the flag set.
C25_DownloadLink ==
  /\ BibEntry =>
       IF call.flag /\ truthy(TheItem, "local_pdf_path")
       THEN endswith(out, DownloadSegment(TheItem))
       ELSE ~contains(out, "[Download Local:")
  /\ GenBib =>
       /\ out = join("\n\n", [k \in 1..Len(items) |->
                                format_bibliography_entry(sorted_items(items)[k], call.flag)])
       /\ ~call.flag => ~contains(out, "[Download Local:")
       /\ call.flag =>
            \A k \in 1..Len(items) :
              truthy(items[k], "local_pdf_path") => contains(out, DownloadSegment(items[k]))


\* the element a bibliography entry leads with: the surname of the first
\* author it shows, the publisher, the title or "[S.A.]", as displayed
DisplayedLead(item) ==
  LET ep == entry_point(item)
  IN  IF ep.source = "authors"
      THEN upper(resolve_author(Resolvable(get_authors(item))[1]).last_name)
      ELSE IF ep.source = "none" THEN ep.part
           ELSE SubSeq(ep.part, 1, Len(ep.part) - 1)

\* C26: for every item the entry point of the sort key is the element its
\* bibliography entry leads with, and the entries of a bibliography are
\* emitted in the alphabetical order of the leads they show.
C26_SortKeyIsDisplayedLead ==
  /\ (BibEntry \/ GenBib) =>
       \A k \in 1..Len(items) :
         /\ startswith(entry_point(items[k]).part, DisplayedLead(items[k]))
         /\ sort_entry_point(items[k]) = DisplayedLead(items[k])
  /\ GenBib =>
       \A k, l \in 1..Len(items) :
         k < l => ~str_lt(DisplayedLead(sorted_items(items)[l]),
                          DisplayedLead(sorted_items(items)[k]))


\* where the lead of the in-text citation of an item is taken from
CitationSource(item) ==
  LET author_str == citation_author_str(item)
  IN  IF _format_authors_abnt(get_authors(item), TRUE) # "" THEN "authors"
      ELSE IF author_str = "" THEN "none"
           ELSE IF truthy(item, "publisher") /\ author_str = upper(item["publisher"])
                THEN "publisher"
                ELSE "title"

\* C27: the in-text citation and the bibliography entry of an item take their
\* lead from the same source: the authors in both, the publisher in both, the
\* title in both, or neither has one.
C27_SameLeadSource ==
  (InText \/ BibEntry) =>
    /\ CitationSource(TheItem) = entry_point(TheItem).source
    /\ (InText /\ CitationSource(TheItem) # "none")
         => startswith(out, "(" \o citation_author_str(TheItem) \o ", ")


\* C28: after a call of download_direct_pdf every file that was there before
\* is there with the content it had; a path that is returned ends in .pdf
\* (in any case of the letters), names a file that did not exist before the
\* call and now does, and was not returned by an earlier call; a failed
\* request returns None and leaves the files as they were.
C28_NeverOverwrites ==
  dl.called =>
    /\ \A p \in DOMAIN dl.before : p \in DOMAIN disk /\ disk[p] = dl.before[p]
    /\ dl.ret # None =>
         /\ endswith(lower(dl.ret[1]), ".pdf")
         /\ dl.ret[1] \notin DOMAIN dl.before
         /\ dl.ret[1] \in DOMAIN disk
         /\ dl.ret[1] \notin dl.returned
    /\ dl.status = "request_error" => (dl.ret = None /\ disk = dl.before)


\* the document of the call holds a highlight annotation
Annotated(doc) == \E n \in 1..Len(doc) : doc[n].annots # {}

\* the exact text stands on no page of the document of the call
NoExactMatch == \A n \in 1..Len(hl.doc) : search_for(hl.doc[n], hl.text_to_highlight) = {}

\* what holds in every state of a call of highlight_text_in_pdf
HighlightStates ==
  /\ hl.ret = Some(TRUE) =>
       /\ Annotated(hl.doc)
       /\ hl.output_pdf_path \in DOMAIN disk
       /\ disk[hl.output_pdf_path] = hl.doc
  /\ (hl.pc = "fallback" \/ hl.llm_called) =>
       /\ hl.use_llm_fallback
       /\ hl.page_num > Len(hl.doc)
       /\ NoExactMatch
  /\ hl.pc = "search" => ~hl.llm_called
  /\ (hl.pc = "done" /\ ~Annotated(hl.doc)) => hl.ret = Some(FALSE)

\* what holds of every step of a call: a file is written by the step that
\* returns True and by no other, and what it writes is the annotated
\* document, at the output path
HighlightSteps ==
  /\ disk' # disk =>
       /\ hl'.ret = Some(TRUE)
       /\ Annotated(hl.doc)
       /\ disk' = (hl.output_pdf_path :> hl.doc) @@ disk
  /\ (hl' # hl /\ hl'.ret = Some(FALSE)) => disk' = disk

DefaultsIntact == cfg.DEFAULT_CONFIG \in {<<>>, DEFAULT_CONFIG}
CachedSteps == DOMAIN cfg._config # {} => /\ cfg'._config = cfg._config
                                         /\ cfg'.DEFAULT_CONFIG = cfg.DEFAULT_CONFIG
                                         /\ cfg'.ret = Some(config_value(cfg))
                                         /\ ~raised'
C30_DefaultsUnchanged == []DefaultsIntact /\ [][CachedSteps]_vars

====
